---- MODULE Spec2Model ----
(***************************************************************************)
(* Upstream access-control and request-orchestration layer of the Guesty   *)
(* proxy: the request limiter (schedule / withLimit), the 429 retry loops   *)
(* of the listings, quote and availability calls, the token getters and    *)
(* the route handlers that map failures to HTTP statuses.                   *)
(*                                                                           *)
(* Sources: src/netlify/functions/index.js (the Express app, second copy,   *)
(* lines 406-1158) and src/netlify/functions/guesty.cjs (getToken with     *)
(* request coalescing).                                                      *)
(*                                                                           *)
(* The process is a single-threaded event loop: every action below is one   *)
(* run-to-completion step between two suspension points (await, timer,      *)
(* I/O completion).                                                          *)
(*                                                                           *)
(* Time is in milliseconds.  Timestamps are kept relative to the present:   *)
(* Date.now() is the origin now, and when d ms pass (Pass) every stored     *)
(* timestamp moves d ms into the past.  The code only ever compares a       *)
(* stored timestamp with Date.now(), at most MIN_INTERVAL_MS back, so a     *)
(* timestamp older than that horizon is kept at the horizon.                *)
(***************************************************************************)
EXTENDS Integers, Sequences, FiniteSets, TLC

(***************************************************************************)
(* Bounds of the model (not program constants).                             *)
(***************************************************************************)
NumCallers == 3        \* concurrent callers
MaxCalls == 2          \* calls each caller makes of schedule() or of a token getter
TickMs == 600          \* period at which the event loop wakes up
MaxRequests == 1       \* inbound requests the client makes in Spec
MaxPages == 2          \* pages the upstream links by next-cursors
LongPages == 26        \* pages of the long upstream of SpecWalk
MaxDays == 2           \* per-day entries of an availability record
MaxQuotes == 2         \* quote requests the client makes in SpecQuote
NumKeys == 502         \* distinct cache keys requested in SpecMaps
MaxFetches == 3        \* GET /api/listings requests the client makes in SpecSlot
MaxLookups == 2        \* inbound requests the client makes in SpecExpiry
MaxRaw == 3            \* raw records normalizePmListings is given (SpecNormalize)
MaxAgain == 1          \* stores of a key stored before, in SpecMaps

\* inputs
Rands == {0, 999}                 \* Math.random(), in thousandths
RetryAfters == {0, 1}             \* retry-after header, seconds (0: absent)
Bodies == {"", "upstream error"}  \* bodies of non-2xx responses
TokenStatuses == {200, 429}       \* answers of the token endpoint
ExpiresIns == {300, 302}          \* expires_in of a token response, seconds

(***************************************************************************)
(* Program constants.                                                       *)
(***************************************************************************)
MAX_CONCURRENT == 1
MIN_INTERVAL_MS == 1200
MAX_PAGES == 25
AVAILABILITY_CACHE_TTL_MS == 600000
AVAILABILITY_CACHE_MAX == 500
QUOTE_CACHE_TTL_MS == 1800

now == 0
Horizon == now - MIN_INTERVAL_MS

Max(a, b) == IF a > b THEN a ELSE b
Min(a, b) == IF a < b THEN a ELSE b

Callers == 1..NumCallers

\* the caller that serves the inbound requests in Spec
Client == CHOOSE c \in Callers : \A d \in Callers : c <= d

\* the callers of the specifications of two concurrent requests
Pair == {c \in Callers : c <= Client + 1}

VARIABLES
    activeCount,    \* index.js:523
    lastStart,      \* index.js:524
    pendingQueue,   \* index.js:525, the queued run closures, by caller
    timers,         \* pending setTimeout callbacks, in creation order
    holders,        \* callers that were handed a release closure and have not called it
    startGap,       \* time between the latest start() and the one before it
    line,           \* the callers whose schedule() has not resolved, in order of call
    pc,             \* each caller's position
    calls,          \* schedule() calls / inbound requests each caller has made
    outcome,        \* how each caller's last work function settled (SpecSched)
    req,            \* each inbound request's local variables
    openApiToken,   \* index.js:612 (0 is null)
    openApiExp,     \* index.js:613
    tokenFile,      \* the JSON document at OPEN_API_TOKEN_CACHE_PATH
    tokenPosts,     \* POSTs sent to the token endpoint so far
    credentials,    \* clientId && clientSecret: both are in the environment
    booking,        \* index.js:654-655 bookingToken, bookingTokenExp; BOOKING_TOKEN_FILE
    cachedToken,    \* guesty.cjs:23 (0 is null)
    tokenExpiresAt, \* guesty.cjs:24
    tokenPromise,   \* guesty.cjs:25 (0 is null, else an index of promises)
    promises,       \* the promises guesty.cjs getToken has built, in creation order
    awaiting,       \* the promise each caller of guesty.cjs getToken awaits (0: none)
    listingsCache,  \* index.js:504
    availabilityCache,  \* index.js:498, the Map's entries in insertion order
    quoteCache,     \* index.js:499, the Map's entries in insertion order
    quoted,         \* for each stay, the latest quote the route answered from upstream
    got,            \* the latest call of a cache function made on its own (SpecMaps)
    pm              \* guesty.cjs:26-27 pmCache, pmContentPromise; the callers' awaits

schedVars == <<activeCount, lastStart, pendingQueue, timers, holders, startGap, line>>
tokenVars == <<openApiToken, openApiExp, tokenFile, tokenPosts, credentials, booking>>
guestyVars == <<cachedToken, tokenExpiresAt, tokenPromise, promises, awaiting>>
vars == <<activeCount, lastStart, pendingQueue, timers, holders, startGap, line,
          pc, calls, outcome, req, openApiToken, openApiExp, tokenFile, tokenPosts,
          credentials, booking,
          cachedToken, tokenExpiresAt, tokenPromise, promises, awaiting,
          listingsCache, availabilityCache, quoteCache, quoted, got, pm>>
cacheVars == <<listingsCache, availabilityCache, quoteCache, quoted, got, pm>>

(***************************************************************************)
(* The limiter, index.js:527-552.  Its mutable state is passed as a record  *)
(* so that run, start and the release closure compose as in the code.       *)
(* admitted collects the callers whose schedule() promise was resolved in   *)
(* the step.                                                                 *)
(***************************************************************************)
SchedState ==
    [activeCount |-> activeCount, lastStart |-> lastStart,
     pendingQueue |-> pendingQueue, timers |-> timers, holders |-> holders,
     startGap |-> startGap, line |-> line, admitted |-> {}]

\* const start = () => { activeCount += 1; lastStart = Date.now(); resolve(release) }
start(S, c) ==
    [S EXCEPT !.activeCount = @ + 1,
              !.startGap = now - S.lastStart,
              !.lastStart = now,
              !.holders = @ \cup {c},
              !.line = SelectSeq(@, LAMBDA d : d # c),
              !.admitted = @ \cup {c}]

\* c joins the line at its schedule() call and keeps its place until it starts
InLine(l, c) == IF \E i \in 1..Len(l) : l[i] = c THEN l ELSE Append(l, c)

\* const run = () => { ... }
run(S, c) ==
    IF S.activeCount >= MAX_CONCURRENT
    THEN [S EXCEPT !.pendingQueue = Append(@, c), !.line = InLine(@, c)]
    ELSE LET waitMs == Max(0, S.lastStart + MIN_INTERVAL_MS - now)
         IN  IF waitMs > 0
             THEN [S EXCEPT !.timers =
                       Append(@, [c |-> c, at |-> now + waitMs, fn |-> "start"]),
                            !.line = InLine(@, c)]
             ELSE start(S, c)

\* a release closure that gives the slot back only to a waiter
releaseLeak(S, c) ==
    LET S1 == [S EXCEPT !.holders = @ \ {c}]
    IN  IF S1.pendingQueue # <<>>
        THEN run([S1 EXCEPT !.activeCount = Max(0, @ - 1), !.pendingQueue = Tail(@)],
                 Head(S1.pendingQueue))
        ELSE S1

\* a release closure that does not call the next waiter
releaseAlone(S, c) ==
    [S EXCEPT !.activeCount = Max(0, @ - 1), !.holders = @ \ {c}]

\* the closure handed to resolve(), called by c in withLimit's finally
release(S, c) ==
    LET S1 == [S EXCEPT !.activeCount = Max(0, @ - 1), !.holders = @ \ {c}]
    IN  IF S1.pendingQueue # <<>>
        THEN run([S1 EXCEPT !.pendingQueue = Tail(@)], Head(S1.pendingQueue))
        ELSE S1

SetSched(S) ==
    /\ activeCount' = S.activeCount
    /\ lastStart' = S.lastStart
    /\ pendingQueue' = S.pendingQueue
    /\ timers' = S.timers
    /\ holders' = S.holders
    /\ startGap' = S.startGap
    /\ line' = S.line

(***************************************************************************)
(* withLimit, index.js:554-561: once schedule() resolves, the caller's     *)
(* work function is invoked.  P and R are pc and req with the acting        *)
(* caller's own changes applied.                                             *)
(***************************************************************************)
PcAfter(S, P) ==
    [d \in Callers |-> IF d \in S.admitted THEN "running" ELSE P[d]]

\* a request that never carries the cursor
ReqAfterNoCursor(S, R) ==
    [d \in Callers |->
        IF d \in S.admitted
        THEN [R[d] EXCEPT !.reqs = @ + 1, !.sent = @ + 1, !.qs = 0,
                          !.asked = IF R[d].kind = "avail" THEN Append(@, R[d].strat)
                                    ELSE @]
        ELSE R[d]]

\* the request is sent with the cursor the caller holds: if (cursor) qs.set("cursor", cursor)
ReqAfter(S, R) ==
    [d \in Callers |->
        IF d \in S.admitted
        THEN [R[d] EXCEPT !.reqs = @ + 1, !.sent = @ + 1, !.qs = R[d].cursor,
                          !.asked = IF R[d].kind = "avail" THEN Append(@, R[d].strat)
                                    ELSE @]
        ELSE R[d]]

(***************************************************************************)
(* Timers (setTimeout).  Node runs due timers in order of their deadline,   *)
(* and timers of equal deadline in creation order; a timer never runs       *)
(* before its deadline, it may run late.                                     *)
(***************************************************************************)
RemoveAt(s, i) == SubSeq(s, 1, i - 1) \o SubSeq(s, i + 1, Len(s))

TimerOf(c) == CHOOSE i \in 1..Len(timers) : timers[i].c = c

HasTimer(c, fn) ==
    \E i \in 1..Len(timers) : timers[i].c = c /\ timers[i].fn = fn

NextTimer(i) ==
    /\ timers[i].at <= now
    /\ \A j \in 1..Len(timers) :
          j # i => \/ timers[j].at > timers[i].at
                   \/ (timers[j].at = timers[i].at /\ j > i)

\* a timestamp after d ms have passed
Shift(t, d) == Max(Horizon, t - d)

\* index.js only tests Date.now() < expiry on a token's expiry: an expiry
\* that is not after the present is kept at the present
ShiftExpiry(t, d) == Max(now, t - d)

\* guesty.cjs compares tokenExpiresAt - 60_000 with Date.now()
EXPIRY_GUARD_MS == 60000

ShiftExpiresAt(t, d) == Max(Horizon + EXPIRY_GUARD_MS, t - d)

ShiftReq(r, d) == [r EXCEPT !.wexp = ShiftExpiry(@, d)]

\* the stays a quote request asks for
Stays == {1, 2}

\* the languages PM content is asked in
Langs == {"en", "fr"}

\* pmCache[lang] is undefined
NoContent == [data |-> "none", expiresAt |-> Horizon + EXPIRY_GUARD_MS]

\* the time of a quote is only compared with the quote TTL
ShiftQuoted(t, d) == Max(now - QUOTE_CACHE_TTL_MS - 1, t - d)

\* d ms pass; the event loop runs every due timer before it idles again
Pass(d) ==
    /\ \A i \in 1..Len(timers) : timers[i].at > now
    /\ lastStart' = Shift(lastStart, d)
    /\ timers' = [i \in 1..Len(timers) |-> [timers[i] EXCEPT !.at = @ - d]]
    /\ openApiExp' = ShiftExpiry(openApiExp, d)
    /\ tokenFile' = [tokenFile EXCEPT !.expires_at = ShiftExpiry(@, d)]
    /\ booking' = [booking EXCEPT !.exp = ShiftExpiry(@, d),
                                  !.file.expires_at = ShiftExpiry(@, d)]
    /\ req' = [c \in Callers |-> ShiftReq(req[c], d)]
    /\ tokenExpiresAt' = ShiftExpiresAt(tokenExpiresAt, d)
    /\ listingsCache' = [listingsCache EXCEPT !.expiresAt = Shift(@, d),
                                              !.was.expiresAt = Shift(@, d)]
    /\ availabilityCache' = [i \in 1..Len(availabilityCache) |->
                                [availabilityCache[i] EXCEPT !.expiresAt = Shift(@, d)]]
    /\ quoteCache' = [i \in 1..Len(quoteCache) |->
                         [quoteCache[i] EXCEPT !.expiresAt = Shift(@, d)]]
    /\ quoted' = [st \in Stays |-> [quoted[st] EXCEPT !.at = ShiftQuoted(@, d)]]
    /\ got' = got
    /\ pm' = [pm EXCEPT !.cache = [l \in Langs |->
                                     [pm.cache[l] EXCEPT !.expiresAt = ShiftExpiresAt(@, d)]]]
    /\ UNCHANGED <<activeCount, pendingQueue, holders, startGap, line, pc, calls, outcome,
                   openApiToken, tokenPosts, credentials, cachedToken, tokenPromise,
                   promises, awaiting>>

\* the event loop wakes up every TickMs; a timer runs at the first wake-up
\* at or after its deadline
Tick == Pass(TickMs)

(***************************************************************************)
(* fetchWithTimeout, index.js:484-492: the listings page and availability  *)
(* requests are sent with an abort timer; the quote POST (index.js:877) and *)
(* the token POST (index.js:624) are sent with fetch itself.                *)
(***************************************************************************)
FETCH_TIMEOUT_MS == 10000

TimedKinds == {"listings", "avail"}

\* const id = setTimeout(() => controller.abort(), timeout), armed when
\* withLimit calls the work function of the caller admitted in this step
Issue(S, R) ==
    IF \E d \in S.admitted : R[d].kind \in TimedKinds
    THEN LET d == CHOOSE d \in S.admitted : R[d].kind \in TimedKinds
         IN  [S EXCEPT !.timers =
                 Append(@, [c |-> d, at |-> now + FETCH_TIMEOUT_MS, fn |-> "abort"])]
    ELSE S

\* finally { clearTimeout(id) }
ClearTimeout(S, c) ==
    IF \E i \in 1..Len(S.timers) : S.timers[i].c = c /\ S.timers[i].fn = "abort"
    THEN [S EXCEPT !.timers = RemoveAt(@, CHOOSE i \in 1..Len(S.timers) :
                                  S.timers[i].c = c /\ S.timers[i].fn = "abort")]
    ELSE S

\* setTimeout(start, waitMs) fires: index.js:536-546
StartTimer(c) ==
    /\ HasTimer(c, "start")
    /\ NextTimer(TimerOf(c))
    /\ LET S == Issue(start([SchedState EXCEPT !.timers = RemoveAt(@, TimerOf(c))], c),
                      req)
       IN  /\ SetSched(S)
           /\ pc' = PcAfter(S, pc)
           /\ req' = ReqAfter(S, req)
    /\ UNCHANGED <<calls, outcome, tokenVars, guestyVars, cacheVars>>

(***************************************************************************)
(* withLimit(fn) for a work function that is I/O of unknown duration and    *)
(* outcome: the limiter on its own.                                          *)
(***************************************************************************)
\* const release = await schedule();
Schedule(c) ==
    /\ pc[c] = "idle"
    /\ calls[c] < MaxCalls
    /\ LET S == run(SchedState, c)
       IN  /\ SetSched(S)
           /\ pc' = PcAfter(S, [pc EXCEPT ![c] = "waiting"])
           /\ req' = ReqAfter(S, req)
    /\ calls' = [calls EXCEPT ![c] = @ + 1]
    /\ UNCHANGED <<outcome, tokenVars, guestyVars, cacheVars>>

\* try { return await fn() } finally { release() }
Complete(c, how) ==
    /\ pc[c] = "running"
    /\ req[c].kind = "none"
    /\ LET S == release(SchedState, c)
       IN  /\ SetSched(S)
           /\ pc' = PcAfter(S, [pc EXCEPT ![c] = "idle"])
           /\ req' = ReqAfter(S, req)
    /\ outcome' = [outcome EXCEPT ![c] = how]
    /\ UNCHANGED <<calls, tokenVars, guestyVars, cacheVars>>

NoErr == [msg |-> "", rateLimited |-> FALSE, status |-> 0]
NoResp == [status |-> 0, retryAfter |-> 0, body |-> ""]
NoFile == [access_token |-> 0, expires_at |-> now]

\* a getter that never finds a durable record
FileHoldsNever(file) == FALSE

\* if (cached && Date.now() < cached.expires_at)
FileHolds(file) == file # NoFile /\ now < file.expires_at

\* a listing record as the availability query returns it: the per-day entries
\* (record.availability) and record.availabilityStatus; "none" is an absent field
NoRecord == [days |-> <<>>, status |-> "none"]

\* no quote was answered yet
NoQuote == [ok |-> FALSE, at |-> now - QUOTE_CACHE_TTL_MS - 1, out |-> <<>>]

NewReq ==
    [kind |-> "none", attempt |-> 0, reqs |-> 0, waits |-> 0,
     backoff |-> 0, guard |-> 0,
     cursor |-> 0, qs |-> 0, results |-> <<>>, sent |-> 0, out |-> <<>>, strat |-> 0, city |-> FALSE, alt |-> FALSE, errors |-> <<>>,
     token |-> 0, post |-> 0, wexp |-> now, timedOut |-> FALSE,
     asked |-> <<>>, resolved |-> FALSE, record |-> NoRecord,
     stay |-> 1, cached |-> FALSE, evicted |-> FALSE, stale |-> FALSE, from |-> 0,
     resp |-> NoResp, http |-> 0, verdict |-> "", err |-> NoErr]


(***************************************************************************)
(* The retry loops: fetchPage (index.js:833-852), tryPost (876-915) and     *)
(* tryQuery (1037-1068).                                                     *)
(***************************************************************************)
Kinds == {"listings", "quote", "avail"}

\* if (attempt >= N) give up
RetryLimit(kind) ==
    CASE kind = "listings" -> 4
      [] kind = "quote" -> 5
      [] kind = "avail" -> 4

BackoffBase(kind) ==
    CASE kind = "listings" -> 700
      [] kind = "quote" -> 800
      [] kind = "avail" -> 600

BackoffCap(kind) ==
    CASE kind = "listings" -> 5000
      [] kind = "quote" -> 8000
      [] kind = "avail" -> 4000

JitterMax(kind) ==
    CASE kind = "listings" -> 200
      [] kind = "quote" -> 300
      [] kind = "avail" -> 200

\* a wait that adds the jitter to the upstream's retry-after
BackoffJitterAlways(kind, attempt, retryAfter, rand) ==
    (IF retryAfter > 0
     THEN retryAfter * 1000
     ELSE Min(BackoffCap(kind), BackoffBase(kind) * 2^attempt))
        + (rand * JitterMax(kind)) \div 1000

\* a wait that does not grow with the attempt
BackoffNoGrowth(kind, attempt, retryAfter, rand) ==
    IF retryAfter > 0
    THEN retryAfter * 1000
    ELSE Min(BackoffCap(kind), BackoffBase(kind))
             + (rand * JitterMax(kind)) \div 1000

\* rand is Math.random() in thousandths; setTimeout truncates to whole ms
Backoff(kind, attempt, retryAfter, rand) ==
    IF retryAfter > 0
    THEN retryAfter * 1000
    ELSE Min(BackoffCap(kind), BackoffBase(kind) * 2^attempt)
             + (rand * JitterMax(kind)) \div 1000

\* a retry loop whose ceiling is tested after the retry instead of before it
ShouldRetryOnceMore(kind, status, attempt) ==
    status = 429 /\ attempt <= RetryLimit(kind)

\* a retry loop that backs off on every non-2xx answer
ShouldRetryAnyError(kind, status, attempt) ==
    status # 200 /\ attempt < RetryLimit(kind)

\* if (res.status === 429) { ... if (attempt >= N) ... }
ShouldRetry(kind, status, attempt) ==
    status = 429 /\ attempt < RetryLimit(kind)

\* the Error thrown by fetchPage / tryPost for a response that ends the loop
ErrorOf(kind, status, body) ==
    IF status = 429
    THEN IF kind = "quote"
         THEN [msg |-> IF body # "" THEN body ELSE "Rate limited by Guesty",
               rateLimited |-> TRUE, status |-> 429]
         ELSE [NoErr EXCEPT !.msg = "Rate limited by Guesty (listings)"]
    ELSE IF kind = "quote"
         THEN [NoErr EXCEPT !.msg = body]
         ELSE [NoErr EXCEPT !.msg = IF body # "" THEN body ELSE ToString(status)]

(***************************************************************************)
(* The routes' catch blocks: index.js:947-949 (listings), 1100-1102         *)
(* (availability), 1143-1150 (quotes).                                       *)
(***************************************************************************)
\* a quotes route that ignores the error's rate-limit marks
RouteStatusUnmarked(kind, e) ==
    CASE kind = "listings" -> 500
      [] kind = "quote" -> 502
      [] kind = "avail" -> 502
      [] OTHER -> 0

RouteStatus(kind, e) ==
    CASE kind = "listings" -> 500
      [] kind = "quote" -> IF e.rateLimited \/ e.status = 429 THEN 429 ELSE 502
      [] kind = "avail" -> 502
      [] OTHER -> 0

\* a failure that hands the records collected so far to the caller
ThrownWithRecords(r, e) ==
    [r EXCEPT !.err = e, !.http = RouteStatus(r.kind, e), !.out = r.results]

Thrown(r, e) == [r EXCEPT !.err = e, !.http = RouteStatus(r.kind, e)]

(***************************************************************************)
(* One run-to-completion step of caller c: its request becomes r, its       *)
(* position p, the limiter S.                                                *)
(***************************************************************************)
Step(c, p, r, S) ==
    /\ SetSched(Issue(S, [req EXCEPT ![c] = r]))
    /\ pc' = PcAfter(S, [pc EXCEPT ![c] = p])
    /\ req' = ReqAfter(S, [req EXCEPT ![c] = r])

\* const res = await withLimit(() => fetch...)
EnterLimit(c, r, S) == Step(c, "waiting", r, run(S, c))

\* getOpenApiToken() has returned to its caller (kind "token": it was called alone)
GotToken(c, r, S) ==
    IF r.kind = "token" THEN Step(c, "done", r, S) ELSE EnterLimit(c, r, S)

(***************************************************************************)
(* getOpenApiToken, index.js:615-648.                                       *)
(***************************************************************************)
MARGIN_S == 300

TokenExpiry(expires_in) == now + (expires_in - MARGIN_S) * 1000

Returned(r, token) == [r EXCEPT !.token = token]

(***************************************************************************)
(* The listings cache, index.js:503-518.  The cache key is the JSON text of *)
(* the filter parameters; the model's listings requests differ in whether   *)
(* they name a city.  data is the list of the pages whose records were      *)
(* collected; left is the cursor the walk that stored the entry still held. *)
(* LISTINGS_CACHE_TTL_MS is read from GUESTY_LISTINGS_CACHE_TTL_MS (default *)
(* 5 min); the model runs the configuration GUESTY_LISTINGS_CACHE_TTL_MS =  *)
(* 1800.                                                                     *)
(***************************************************************************)
LISTINGS_CACHE_TTL_MS == 1800

\* let listingsCache = { key: "", expiresAt: 0, data: null }
\* (was: the entry the last setListingsCache replaced, kept for reference)
NoEntry == [key |-> FALSE, expiresAt |-> Horizon, set |-> FALSE]

EmptyCache ==
    [key |-> FALSE, expiresAt |-> Horizon, data |-> <<>>, set |-> FALSE, left |-> 0,
     was |-> NoEntry]

\* a getListingsCache that drops an entry at its expiresAt already
CacheHitBeforeExpiry(cache, key) ==
    cache.set /\ cache.key = key /\ now < cache.expiresAt

\* a getListingsCache over two slots: the entry and the one it replaced
CacheHitKept(cache, key) ==
    \/ cache.set /\ cache.key = key /\ ~(now > cache.expiresAt)
    \/ cache.set /\ cache.was.set /\ cache.was.key = key /\ ~(now > cache.was.expiresAt)

\* getListingsCache(key) returns the stored data
CacheHit(cache, key) ==
    cache.set /\ cache.key = key /\ ~(now > cache.expiresAt)

\* listingsCache after getListingsCache(key): an expired entry is dropped
AfterLookup(cache, key) ==
    IF cache.set /\ cache.key = key /\ now > cache.expiresAt THEN EmptyCache ELSE cache

\* getListingsCache(key) finds the key's entry past its expiresAt
CacheStale(cache, key) ==
    cache.set /\ cache.key = key /\ now > cache.expiresAt

\* setListingsCache(key, data)
Stored(cache, key, data, left) ==
    [key |-> key, expiresAt |-> now + LISTINGS_CACHE_TTL_MS, data |-> data, set |-> TRUE,
     left |-> left,
     was |-> [key |-> cache.key, expiresAt |-> cache.expiresAt, set |-> cache.set]]

\* the results fetched for key were stored less than the TTL ago, and a later
\* setListingsCache for another key has replaced them
Evicted(cache, key) ==
    /\ cache.set /\ cache.key # key
    /\ cache.was.set /\ cache.was.key = key /\ ~(now > cache.was.expiresAt)

(***************************************************************************)
(* The availability and quote caches, index.js:496-501 and 563-593: two     *)
(* Maps from the request's key to { value, expiresAt }.  A Map iterates in  *)
(* insertion order and set() on a key it holds keeps the key's place, so a  *)
(* Map is the sequence of its entries; born numbers the insertions.  The    *)
(* route's key joins the request's parameters: the model's requests differ  *)
(* in city, unitTypeId (alt) and in the stay they ask for.                   *)
(* QUOTE_CACHE_TTL_MS is read from GUESTY_QUOTE_CACHE_TTL_MS (default 15    *)
(* min); the model runs the configuration GUESTY_QUOTE_CACHE_TTL_MS = 1800. *)
(***************************************************************************)

CacheKey(r) == r.stay + (IF r.city THEN 2 ELSE 0) + (IF r.alt THEN 4 ELSE 0)

\* map.has(key)
MapHas(map, key) == \E i \in 1..Len(map) : map[i].key = key

MapIndex(map, key) == CHOOSE i \in 1..Len(map) : map[i].key = key

\* map.get(key)
MapGet(map, key) == map[MapIndex(map, key)]

\* map.delete(key)
MapDelete(map, key) ==
    IF MapHas(map, key) THEN RemoveAt(map, MapIndex(map, key)) ELSE map

\* the number of the next insertion
NextBorn(map) ==
    IF map = <<>> THEN 1 ELSE 1 + map[Len(map)].born

\* map.set(key, { value, expiresAt })
MapSet(map, key, value, expiresAt) ==
    IF MapHas(map, key)
    THEN [map EXCEPT ![MapIndex(map, key)].value = value,
                     ![MapIndex(map, key)].expiresAt = expiresAt]
    ELSE Append(map, [key |-> key, value |-> value, expiresAt |-> expiresAt,
                      born |-> NextBorn(map)])

\* a cache that drops an entry at its expiresAt already
CacheHoldsBeforeExpiry(map, key) ==
    MapHas(map, key) /\ now < MapGet(map, key).expiresAt

\* getAvailabilityCache / getQuoteCache return entry.value
CacheHolds(map, key) ==
    MapHas(map, key) /\ ~(now > MapGet(map, key).expiresAt)

\* getAvailabilityCache / getQuoteCache find the key's entry past its expiresAt
MapStale(map, key) ==
    MapHas(map, key) /\ now > MapGet(map, key).expiresAt

\* a lookup that leaves an expired entry in the Map
AfterGetKept(map, key) == map

\* a lookup that moves the entry it hits to the end of the Map (LRU)
AfterGetLru(map, key) ==
    IF ~MapHas(map, key) THEN map
    ELSE IF now > MapGet(map, key).expiresAt THEN MapDelete(map, key)
    ELSE Append(MapDelete(map, key), MapGet(map, key))

\* the Map after getAvailabilityCache / getQuoteCache: an expired entry is deleted
AfterGet(map, key) ==
    IF MapHas(map, key) /\ now > MapGet(map, key).expiresAt
    THEN MapDelete(map, key)
    ELSE map

\* setAvailabilityCache(key, value)
SetAvailabilityCache(map, key, value) ==
    MapSet(IF Len(map) >= AVAILABILITY_CACHE_MAX THEN Tail(map) ELSE map,
           key, value, now + AVAILABILITY_CACHE_TTL_MS)

\* setQuoteCache(key, value)
SetQuoteCache(map, key, value) ==
    MapSet(map, key, value, now + QUOTE_CACHE_TTL_MS)

\* res.json({ ...cached, cached: true })
FromCache(r, value) ==
    [r EXCEPT !.http = 200, !.cached = TRUE, !.out = value.out,
              !.verdict = value.verdict, !.record = value.record,
              !.errors = value.errors]

\* the payload the route stores and sends
Payload(r) ==
    [out |-> r.out, verdict |-> r.verdict, record |-> r.record, errors |-> r.errors]

(***************************************************************************)
(* The cache functions on their own: requests for NumKeys keys, each key    *)
(* asked for the first time after the keys below it; the keys asked for     *)
(* again are ProbeKeys.  got tells the calls apart (turn alternates).       *)
(***************************************************************************)
Keys == 1..NumKeys

ProbeKeys == {1, 2, AVAILABILITY_CACHE_MAX + 1}

\* the next key in line, or one of ProbeKeys stored before (high is the
\* highest key stored so far, again the number of stores of earlier keys)
Asked(key) ==
    \/ key = got.high + 1
    \/ key \in ProbeKeys /\ key <= got.high /\ got.again < MaxAgain

Called(fn, key, hit) ==
    [fn |-> fn, key |-> key, hit |-> hit, turn |-> 1 - got.turn,
     high |-> IF fn = "set" THEN Max(got.high, key) ELSE got.high,
     again |-> IF fn = "set" /\ key <= got.high THEN got.again + 1 ELSE got.again]

\* getAvailabilityCache(key)
AvailabilityGet(key) ==
    /\ quoteCache = <<>>
    /\ key \in ProbeKeys
    /\ got' = Called("get", key, CacheHolds(availabilityCache, key))
    /\ availabilityCache' = AfterGet(availabilityCache, key)
    /\ UNCHANGED <<schedVars, pc, calls, outcome, req, tokenVars, guestyVars,
                   listingsCache, quoteCache, quoted, pm>>

\* setAvailabilityCache(key, value)
AvailabilitySet(key) ==
    /\ quoteCache = <<>>
    /\ Asked(key)
    /\ got' = Called("set", key, FALSE)
    /\ availabilityCache' =
           SetAvailabilityCache(availabilityCache, key, Payload(NewReq))
    /\ UNCHANGED <<schedVars, pc, calls, outcome, req, tokenVars, guestyVars,
                   listingsCache, quoteCache, quoted, pm>>

\* getQuoteCache(key)
QuoteGet(key) ==
    /\ availabilityCache = <<>>
    /\ key \in ProbeKeys
    /\ got' = Called("get", key, CacheHolds(quoteCache, key))
    /\ quoteCache' = AfterGet(quoteCache, key)
    /\ UNCHANGED <<schedVars, pc, calls, outcome, req, tokenVars, guestyVars,
                   listingsCache, availabilityCache, quoted, pm>>

\* setQuoteCache(key, value)
QuoteSet(key) ==
    /\ availabilityCache = <<>>
    /\ Asked(key)
    /\ got' = Called("set", key, FALSE)
    /\ quoteCache' = SetQuoteCache(quoteCache, key, Payload(NewReq))
    /\ UNCHANGED <<schedVars, pc, calls, outcome, req, tokenVars, guestyVars,
                   listingsCache, availabilityCache, quoted, pm>>

\* the process idles for longer than the availability TTL, a cache being
\* one entry from AVAILABILITY_CACHE_MAX or beyond
Idle ==
    /\ \/ Len(availabilityCache) >= AVAILABILITY_CACHE_MAX - 1
       \/ Len(quoteCache) >= AVAILABILITY_CACHE_MAX - 1
    /\ Pass(AVAILABILITY_CACHE_TTL_MS + 1)

\* fetchOpenApiListings returned results to fetchPmListings and the route
Finished(r, results) ==
    IF results = <<>>
    THEN Thrown(r, [NoErr EXCEPT !.msg = "Open API listings returned no results"])
    ELSE [r EXCEPT !.http = 200, !.out = results]

\* an inbound request arrives; the handler runs up to its first suspension
Arrive(c, k, city, alt, stay) ==
    /\ pc[c] \in {"idle", "done"}
    /\ calls' = [calls EXCEPT ![c] = @ + 1]
    /\ LET r0 == [NewReq EXCEPT !.kind = k, !.city = city, !.alt = alt, !.stay = stay,
                               !.strat = IF k = "avail" THEN 1 ELSE 0,
                               !.evicted = k = "listings" /\ Evicted(listingsCache, city)]
           key == CacheKey(r0)
           r == [r0 EXCEPT !.stale =
                    CASE k = "listings" -> CacheStale(listingsCache, city)
                      [] k = "avail" -> MapStale(availabilityCache, key)
                      [] k = "quote" -> MapStale(quoteCache, key)
                      [] OTHER -> FALSE]
       IN  IF k = "listings" /\ CacheHit(listingsCache, city)
           THEN /\ Step(c, "done", Finished(r, listingsCache.data), SchedState)
                /\ UNCHANGED cacheVars
           ELSE IF k = "avail" /\ CacheHolds(availabilityCache, key)
           THEN /\ Step(c, "done", FromCache(r, MapGet(availabilityCache, key).value),
                        SchedState)
                /\ UNCHANGED cacheVars
           ELSE IF k = "quote" /\ CacheHolds(quoteCache, key)
           THEN /\ Step(c, "done", FromCache(r, MapGet(quoteCache, key).value),
                        SchedState)
                /\ UNCHANGED cacheVars
           ELSE /\ listingsCache' = IF k = "listings"
                                    THEN AfterLookup(listingsCache, city)
                                    ELSE listingsCache
                /\ availabilityCache' = IF k = "avail"
                                        THEN AfterGet(availabilityCache, key)
                                        ELSE availabilityCache
                /\ quoteCache' = IF k = "quote" THEN AfterGet(quoteCache, key)
                                 ELSE quoteCache
                /\ UNCHANGED <<quoted, got, pm>>
                /\ IF openApiToken # 0 /\ now < openApiExp
                   THEN GotToken(c, Returned(r, openApiToken), SchedState)
                   ELSE Step(c, "readCache", r, SchedState)
    /\ UNCHANGED <<outcome, tokenVars, guestyVars>>

Begin(c, k, city, alt, stay) ==
    /\ calls[c] < (IF k = "token" THEN MaxCalls ELSE MaxRequests)
    /\ Arrive(c, k, city, alt, stay)

\* GET /api/listings, for a city or for all cities
ListingsRequest(c, city) ==
    /\ calls[c] < MaxFetches
    /\ Arrive(c, "listings", city, FALSE, 1)

\* an inbound request of a client that comes back
Lookup(c, k, city, alt, stay) ==
    /\ calls[c] < MaxLookups
    /\ Arrive(c, k, city, alt, stay)

\* the process stays idle for the availability TTL after it has answered an
\* availability request
LongRest ==
    /\ pc[Client] = "done" /\ timers = <<>>
    /\ \E i \in 1..Len(availabilityCache) :
          availabilityCache[i].expiresAt = now + AVAILABILITY_CACHE_TTL_MS
    /\ Pass(AVAILABILITY_CACHE_TTL_MS)

\* POST /api/reservations/quotes for a stay
QuoteRequest(c, stay) ==
    /\ calls[c] < MaxQuotes
    /\ Arrive(c, "quote", FALSE, FALSE, stay)

\* const cached = await readCache(...) completes
ReadCacheDone(c) ==
    /\ pc[c] = "readCache"
    /\ IF FileHolds(tokenFile)
       THEN /\ openApiToken' = tokenFile.access_token
            /\ openApiExp' = tokenFile.expires_at
            /\ tokenPosts' = tokenPosts
            /\ GotToken(c, Returned(req[c], tokenFile.access_token), SchedState)
       ELSE /\ tokenPosts' = tokenPosts + 1
            /\ Step(c, "tokenPost", [req[c] EXCEPT !.post = tokenPosts + 1], SchedState)
            /\ UNCHANGED <<openApiToken, openApiExp>>
    /\ UNCHANGED <<calls, outcome, tokenFile, credentials, booking, guestyVars, cacheVars>>

(***************************************************************************)
(* getBookingEngineToken, index.js:657-690: the getter of the scope          *)
(* booking_engine:api, with its own module variables and its own file.  The *)
(* model numbers the tokens of this scope below zero.                        *)
(***************************************************************************)
NoBooking == [token |-> 0, exp |-> now, file |-> NoFile, posts |-> 0]

\* getBookingEngineToken() is called, up to its return or to await readCache()
GetBookingEngineToken(c) ==
    /\ pc[c] \in {"idle", "done"}
    /\ calls[c] < MaxCalls
    /\ calls' = [calls EXCEPT ![c] = @ + 1]
    /\ LET r == [NewReq EXCEPT !.kind = "booking"]
       IN  IF booking.token # 0 /\ now < booking.exp
           THEN Step(c, "done", Returned(r, booking.token), SchedState)
           ELSE Step(c, "bookingRead", r, SchedState)
    /\ UNCHANGED <<outcome, tokenVars, guestyVars, cacheVars>>

\* const cached = await readCache(BOOKING_TOKEN_FILE) completes
BookingReadDone(c) ==
    /\ pc[c] = "bookingRead"
    /\ IF FileHolds(booking.file)
       THEN /\ booking' = [booking EXCEPT !.token = booking.file.access_token,
                                          !.exp = booking.file.expires_at]
            /\ Step(c, "done", Returned(req[c], booking.file.access_token), SchedState)
       ELSE /\ booking' = [booking EXCEPT !.posts = @ + 1]
            /\ Step(c, "bookingPost", [req[c] EXCEPT !.post = booking.posts + 1],
                    SchedState)
    /\ UNCHANGED <<calls, outcome, openApiToken, openApiExp, tokenFile, tokenPosts,
                   credentials, guestyVars, cacheVars>>

\* the token endpoint answers the request for the booking scope
BookingTokenResponse(c, status, expires_in) ==
    /\ pc[c] = "bookingPost"
    /\ IF status # 200
       THEN /\ Step(c, "done", Thrown(req[c], [NoErr EXCEPT !.msg = "token"]), SchedState)
            /\ booking' = booking
       ELSE /\ booking' = [booking EXCEPT !.token = 0 - req[c].post,
                                          !.exp = Max(now, TokenExpiry(expires_in))]
            /\ Step(c, "bookingWrite",
                    [req[c] EXCEPT !.wexp = Max(now, TokenExpiry(expires_in))],
                    SchedState)
    /\ UNCHANGED <<calls, outcome, openApiToken, openApiExp, tokenFile, tokenPosts,
                   credentials, guestyVars, cacheVars>>

\* await writeCache(BOOKING_TOKEN_FILE, ...) settles; return bookingToken
BookingWriteDone(c, ok) ==
    /\ pc[c] = "bookingWrite"
    /\ IF ok
       THEN /\ booking' = [booking EXCEPT !.file = [access_token |-> 0 - req[c].post,
                                                    expires_at |-> req[c].wexp]]
            /\ Step(c, "done", Returned(req[c], booking.token), SchedState)
       ELSE /\ booking' = booking
            /\ Step(c, "done", Thrown(req[c], [NoErr EXCEPT !.msg = "write"]), SchedState)
    /\ UNCHANGED <<calls, outcome, openApiToken, openApiExp, tokenFile, tokenPosts,
                   credentials, guestyVars, cacheVars>>

\* the token endpoint answers
TokenResponse(c, status, expires_in) ==
    /\ pc[c] = "tokenPost"
    /\ IF status # 200
       THEN /\ Step(c, "done", Thrown(req[c], [NoErr EXCEPT !.msg = "token"]), SchedState)
            /\ UNCHANGED <<openApiToken, openApiExp>>
       ELSE /\ openApiToken' = req[c].post
            /\ openApiExp' = Max(now, TokenExpiry(expires_in))
            /\ Step(c, "writeCache",
                    [req[c] EXCEPT !.wexp = Max(now, TokenExpiry(expires_in))],
                    SchedState)
    /\ UNCHANGED <<calls, outcome, tokenFile, tokenPosts, credentials, booking, guestyVars,
                   cacheVars>>

\* await writeCache(...) settles; return openApiToken
WriteCacheDone(c, ok) ==
    /\ pc[c] = "writeCache"
    /\ IF ok
       THEN /\ tokenFile' = [access_token |-> req[c].post, expires_at |-> req[c].wexp]
            /\ GotToken(c, Returned(req[c], openApiToken), SchedState)
       ELSE /\ tokenFile' = tokenFile
            /\ Step(c, "done", Thrown(req[c], [NoErr EXCEPT !.msg = "write"]), SchedState)
    /\ UNCHANGED <<calls, outcome, openApiToken, openApiExp, tokenPosts, credentials, booking,
                   guestyVars, cacheVars>>

(***************************************************************************)
(* The availability route's fallback chain, index.js:1070-1084.             *)
(***************************************************************************)
\* a chain that tries the alternate id before the city
NextStratAltFirst(r) ==
    IF r.strat = 1 /\ r.alt THEN 3
    ELSE IF r.strat \in {1, 3} /\ r.city THEN 2
    ELSE 0

NextStrat(r) ==
    IF r.strat = 1 /\ r.city THEN 2
    ELSE IF r.strat \in {1, 2} /\ r.alt THEN 3
    ELSE 0

\* a chain that throws when its last strategy returned null
NextStrategyOrThrow(c, r, S) ==
    IF NextStrat(r) # 0
    THEN EnterLimit(c, [r EXCEPT !.strat = NextStrat(r), !.attempt = 0,
                                 !.reqs = 0, !.waits = 0,
                                 !.backoff = 0], S)
    ELSE Step(c, "done", Thrown(r, [NoErr EXCEPT !.msg = "No availability"]), S)

\* tryQuery returned null
NextStrategy(c, r, S) ==
    IF NextStrat(r) # 0
    THEN EnterLimit(c, [r EXCEPT !.strat = NextStrat(r), !.attempt = 0,
                                 !.reqs = 0, !.waits = 0,
                                 !.backoff = 0], S)
    ELSE LET rateLimited == \E i \in 1..Len(r.errors) : r.errors[i].status = 429
         IN  Step(c, "done", [r EXCEPT !.http = IF rateLimited THEN 429 ELSE 200,
                                       !.verdict = "false"], S)

(***************************************************************************)
(* The upstream answers the request caller c has in flight (status 0: the   *)
(* fetch rejected, the network failed).                                     *)
(***************************************************************************)
Response(c, status, retryAfter, body) ==
    /\ pc[c] = "running"
    /\ req[c].kind \in Kinds
    /\ LET S == release(ClearTimeout(SchedState, c), c)
           k == req[c].kind
           r0 == [req[c] EXCEPT !.resp = [status |-> status, retryAfter |-> retryAfter,
                                          body |-> body],
                                !.backoff = 0]
           r == IF k = "avail" /\ status \notin {0, 200}
                THEN [r0 EXCEPT !.errors =
                         Append(@, [status |-> status,
                                    attempt |-> IF status = 429 THEN r0.attempt ELSE -1])]
                ELSE r0
       IN  IF status = 0
           THEN Step(c, "done", Thrown(r, [NoErr EXCEPT !.msg = "fetch failed"]), S)
           ELSE IF status = 200
           THEN Step(c, "body", r, S)
           ELSE IF ShouldRetry(k, status, r.attempt)
           THEN \E rand \in Rands :
                   Step(c, "backoff",
                        [r EXCEPT !.waits = @ + 1,
                                  !.backoff = Backoff(k, r.attempt, retryAfter, rand)],
                        [S EXCEPT !.timers = Append(@,
                            [c |-> c, fn |-> "wake",
                             at |-> now + Backoff(k, r.attempt, retryAfter, rand)])])
           ELSE IF k = "avail"
           THEN NextStrategy(c, r, S)
           ELSE Step(c, "done", Thrown(r, ErrorOf(k, status, body)), S)
    /\ UNCHANGED <<calls, outcome, tokenVars, guestyVars, cacheVars>>

\* a tryQuery that takes a timeout for one more failed strategy
OnAbortNextStrategy(c, r, S) ==
    IF r.kind = "avail"
    THEN NextStrategy(c, r, S)
    ELSE Step(c, "done", Thrown(r, [NoErr EXCEPT !.msg = "This operation was aborted"]), S)

\* the rejection of fetch leaves fetchPage / tryQuery and reaches the route's catch
OnAbort(c, r, S) ==
    Step(c, "done", Thrown(r, [NoErr EXCEPT !.msg = "This operation was aborted"]), S)

\* the abort timer of caller c's request fires: fetch rejects, withLimit's
\* finally releases the slot
Abort(c) ==
    /\ HasTimer(c, "abort")
    /\ NextTimer(TimerOf(c))
    /\ pc[c] = "running"
    /\ OnAbort(c, [req[c] EXCEPT !.timedOut = TRUE, !.backoff = 0],
               release([SchedState EXCEPT !.timers = RemoveAt(@, TimerOf(c))], c))
    /\ UNCHANGED <<calls, outcome, tokenVars, guestyVars, cacheVars>>

\* await wait(backoff) ends: return fetchPage(attempt + 1)
Wake(c) ==
    /\ HasTimer(c, "wake")
    /\ NextTimer(TimerOf(c))
    /\ EnterLimit(c, [req[c] EXCEPT !.attempt = @ + 1, !.resp = NoResp],
                  [SchedState EXCEPT !.timers = RemoveAt(@, TimerOf(c))])
    /\ UNCHANGED <<calls, outcome, tokenVars, guestyVars, cacheVars>>

\* a page loop that goes on as long as the upstream hands out a cursor
ContinuesUnguarded(r) == r.cursor # 0

\* } while (cursor && guard < 25);
Continues(r) == r.cursor # 0 /\ r.guard < MAX_PAGES

\* await res.json() completes: n results, with or without a next cursor
BodyRead(c, n, next) ==
    /\ pc[c] = "body"
    /\ req[c].kind \in {"listings", "quote"}
    /\ LET r == req[c]
           k == r.kind
       IN  CASE k = "listings" ->
                  \* the upstream serves the page after the cursor it was sent
                  LET r1 == [r EXCEPT !.results = IF n > 0 THEN Append(@, r.qs + 1) ELSE @,
                                      !.cursor = IF next THEN r.qs + 1 ELSE 0,
                                      !.guard = @ + 1]
                  IN  IF Continues(r1)
                      THEN /\ EnterLimit(c, [r1 EXCEPT !.attempt = 0, !.reqs = 0,
                                                        !.waits = 0,
                                 !.backoff = 0], SchedState)
                           /\ UNCHANGED cacheVars
                      ELSE /\ listingsCache' = Stored(listingsCache, r1.city, r1.results, r1.cursor)
                           /\ Step(c, "done", Finished(r1, r1.results), SchedState)
                           /\ UNCHANGED <<availabilityCache, quoteCache, quoted, got, pm>>
             [] k = "quote" ->
                  \* the upstream's quote n: const payload = { results: [quote] }
                  LET r1 == [r EXCEPT !.http = 200, !.out = <<n>>]
                  IN  /\ n >= 1 /\ ~next
                      /\ quoteCache' = SetQuoteCache(quoteCache, CacheKey(r), Payload(r1))
                      /\ quoted' = [quoted EXCEPT ![r.stay] =
                                       [ok |-> TRUE, at |-> now, out |-> r1.out]]
                      /\ Step(c, "done", r1, SchedState)
                      /\ UNCHANGED <<listingsCache, availabilityCache, got, pm>>
    /\ UNCHANGED <<calls, outcome, tokenVars, guestyVars>>

\* String.prototype.toUpperCase on the strings the upstream sends here
ToUpper(str) ==
    CASE str = "available" -> "AVAILABLE"
      [] str = "unavailable" -> "UNAVAILABLE"
      [] str = "blocked" -> "BLOCKED"
      [] OTHER -> str

\* d?.isAvailable ?? d?.available ?? true
DayFlag(d) ==
    IF d.isAvailable # "none" THEN d.isAvailable
    ELSE IF d.available # "none" THEN d.available
    ELSE "true"

\* const isAvailable = days.length ? days.every(...) : record ? (typeof status
\* === "string" ? status.toUpperCase() === "AVAILABLE" : true) : false
IsAvailable(record) ==
    IF Len(record.days) > 0
    THEN \A i \in 1..Len(record.days) : DayFlag(record.days[i]) # "false"
    ELSE IF record.status # "none"
    THEN ToUpper(record.status) = "AVAILABLE"
    ELSE TRUE

\* the listings of the upstream: the one the route is asked about (:id), the
\* one the query names as unitTypeId, and another one of the same city
PrimaryId == 1
AlternateId == 2
ListingIds == {PrimaryId, AlternateId, 3}

\* the _id of the first record the upstream returns: the listing an ids=
\* query names, or any listing of the city a city= query names
Served(r) ==
    CASE r.strat = 1 -> {PrimaryId}
      [] r.strat = 3 -> {AlternateId}
      [] OTHER -> ListingIds

\* tryQuery: await response.json() completes with json.results; from is the
\* _id of json.results[0]
QueryRead(c, results) ==
    /\ pc[c] = "body"
    /\ req[c].kind = "avail"
    /\ IF Len(results) > 0
       THEN \E id \in Served(req[c]) :
            LET r1 == [req[c] EXCEPT !.http = 200, !.resolved = TRUE,
                                     !.record = results[1], !.from = id,
                                     !.verdict = IF IsAvailable(results[1]) THEN "true"
                                                 ELSE "false"]
            IN  /\ availabilityCache' =
                       SetAvailabilityCache(availabilityCache, CacheKey(r1), Payload(r1))
                /\ Step(c, "done", r1, SchedState)
       ELSE /\ NextStrategy(c, [req[c] EXCEPT !.errors =
                   Append(@, [status |-> 200, attempt |-> -1])], SchedState)
            /\ UNCHANGED availabilityCache
    /\ UNCHANGED <<calls, outcome, tokenVars, guestyVars, listingsCache, quoteCache,
                   quoted, got, pm>>

\* createQuote: await res.json() completes with the upstream's quote
QuoteRead(c, quote) == BodyRead(c, quote, FALSE)

\* a page of an upstream that links at most MaxPages pages
PageRead(c, n, next) ==
    /\ next => req[c].guard + 1 < MaxPages
    /\ BodyRead(c, n, next)

\* a page of an upstream that links at most LongPages pages, each with records
LongPageRead(c, next) ==
    /\ next => req[c].guard + 1 < LongPages
    /\ BodyRead(c, 1, next)

(***************************************************************************)
(* getToken of guesty.cjs:36-78 (guesty.js:32-74 is the same code).  A      *)
(* promise of promises is the chain fetch().then().then().catch().finally() *)
(* built by one getToken call that found neither a valid cachedToken nor a  *)
(* tokenPromise: "fetch" while the POST is in flight, "wait" during the     *)
(* catch handler's wait(), "follow" once the catch handler has returned     *)
(* another promise, whose outcome it takes, then "resolved" or "rejected".  *)
(* Handlers that run in one drain of the microtask queue are one step.      *)
(***************************************************************************)
GuestyExpiresIns == {61, 62}      \* expires_in of a token response, seconds
GuestyStatuses == {200, 429, 500} \* answers of the token endpoint

MAX_TOKEN_RETRIES == 2

\* tokenExpiresAt = Date.now() + (json.expires_in || 86_400) * 1000
GuestyExpiry(expires_in) ==
    now + (IF expires_in = 0 THEN 86400 ELSE expires_in) * 1000

\* wait(1500 * (retry + 1))
RetryWait(retry) == 1500 * (retry + 1)

\* every getToken() call builds at most one promise
PromiseIds == 1..(NumCallers * MaxCalls)

NewPromise(retry) == [retry |-> retry, st |-> "fetch", follows |-> 0, val |-> 0]

\* the promises that take the outcome of a promise in F, in at most n links
RECURSIVE FollowersOf(_, _, _)
FollowersOf(P, F, n) ==
    IF n = 0 THEN F
    ELSE FollowersOf(P, F \cup {i \in DOMAIN P : P[i].st = "follow" /\ P[i].follows \in F},
                     n - 1)

\* promise k settles, and with it every promise that follows it
Settle(P, k, st, val) ==
    [i \in DOMAIN P |->
        IF i \in FollowersOf(P, {k}, Len(P))
        THEN [P[i] EXCEPT !.st = st, !.val = val]
        ELSE P[i]]

\* the callers' awaits of promises settled in P continue
Continue(P) ==
    /\ pc' = [c \in Callers |->
                 IF awaiting[c] # 0 /\ P[awaiting[c]].st \in {"resolved", "rejected"}
                 THEN "done" ELSE pc[c]]
    /\ outcome' = [c \in Callers |->
                 IF awaiting[c] # 0 /\ P[awaiting[c]].st \in {"resolved", "rejected"}
                 THEN P[awaiting[c]].st ELSE outcome[c]]
    /\ awaiting' = [c \in Callers |->
                 IF awaiting[c] # 0 /\ P[awaiting[c]].st \in {"resolved", "rejected"}
                 THEN 0 ELSE awaiting[c]]

\* if (cachedToken && now < tokenExpiresAt - 60_000)
CachedValid == cachedToken # 0 /\ now < tokenExpiresAt - EXPIRY_GUARD_MS

\* a promise chain without its .finally handler
AfterNoFinally(marker) == marker

\* .finally(() => { tokenPromise = null; })
AfterFinally(marker) == 0

\* a caller invokes getToken()
GetToken(c) ==
    /\ pc[c] \in {"idle", "done"}
    /\ calls[c] < MaxCalls
    /\ calls' = [calls EXCEPT ![c] = @ + 1]
    /\ IF CachedValid
       THEN /\ pc' = [pc EXCEPT ![c] = "done"]
            /\ outcome' = [outcome EXCEPT ![c] = "resolved"]
            /\ UNCHANGED <<awaiting, tokenPromise, promises>>
       ELSE IF tokenPromise # 0
       THEN /\ pc' = [pc EXCEPT ![c] = "awaiting"]
            /\ awaiting' = [awaiting EXCEPT ![c] = tokenPromise]
            /\ UNCHANGED <<outcome, tokenPromise, promises>>
       ELSE /\ promises' = Append(promises, NewPromise(0))
            /\ tokenPromise' = Len(promises) + 1
            /\ pc' = [pc EXCEPT ![c] = "awaiting"]
            /\ awaiting' = [awaiting EXCEPT ![c] = Len(promises) + 1]
            /\ UNCHANGED outcome
    /\ UNCHANGED <<schedVars, req, tokenVars, cachedToken, tokenExpiresAt, cacheVars>>

\* the token endpoint answers the POST of promise k: the .then handlers, the
\* .catch handler up to its await, and on settlement the .finally handler
GuestyResponse(k, status, expires_in) ==
    /\ k \in DOMAIN promises
    /\ promises[k].st = "fetch"
    /\ IF status = 200
       THEN /\ cachedToken' = k
            /\ tokenExpiresAt' = GuestyExpiry(expires_in)
            /\ tokenPromise' = AfterFinally(tokenPromise)
            /\ promises' = Settle(promises, k, "resolved", k)
            /\ Continue(Settle(promises, k, "resolved", k))
            /\ UNCHANGED timers
       ELSE IF status = 429 /\ promises[k].retry < MAX_TOKEN_RETRIES
       THEN /\ promises' = [promises EXCEPT ![k].st = "wait"]
            /\ timers' = Append(timers, [c |-> k, fn |-> "retry",
                                         at |-> now + RetryWait(promises[k].retry)])
            /\ UNCHANGED <<cachedToken, tokenExpiresAt, tokenPromise, pc, outcome,
                           awaiting>>
       ELSE /\ tokenPromise' = AfterFinally(tokenPromise)
            /\ promises' = Settle(promises, k, "rejected", status)
            /\ Continue(Settle(promises, k, "rejected", status))
            /\ UNCHANGED <<cachedToken, tokenExpiresAt, timers>>
    /\ UNCHANGED <<activeCount, lastStart, pendingQueue, holders, startGap, line, calls,
                   req,
                   tokenVars, cacheVars>>

\* await wait(...) ends in the catch handler of promise k: return getToken(retry + 1)
RetryWake(k) ==
    /\ HasTimer(k, "retry")
    /\ NextTimer(TimerOf(k))
    /\ timers' = RemoveAt(timers, TimerOf(k))
    /\ IF CachedValid
       THEN /\ tokenPromise' = AfterFinally(tokenPromise)
            /\ promises' = Settle(promises, k, "resolved", cachedToken)
            /\ Continue(Settle(promises, k, "resolved", cachedToken))
       ELSE IF tokenPromise # 0
       THEN /\ promises' = [promises EXCEPT ![k].st = "follow",
                                             ![k].follows = tokenPromise]
            /\ UNCHANGED <<tokenPromise, pc, outcome, awaiting>>
       ELSE /\ promises' = Append([promises EXCEPT ![k].st = "follow",
                                                    ![k].follows = Len(promises) + 1],
                                  NewPromise(promises[k].retry + 1))
            /\ tokenPromise' = Len(promises) + 1
            /\ UNCHANGED <<pc, outcome, awaiting>>
    /\ UNCHANGED <<activeCount, lastStart, pendingQueue, holders, startGap, line, calls,
                   req,
                   tokenVars, cachedToken, tokenExpiresAt, cacheVars>>

(***************************************************************************)
(* fetchPmContent of guesty.cjs:97-131 (server/index.js:630-666 is the same *)
(* code).  The content the upstream serves for ?lang=l is l.  pm.promise is *)
(* pmContentPromise: "none", or the lang of the call that built the chain   *)
(* fetch().then().then().finally(); pm.lang is the lang each caller asked   *)
(* for, pm.data what its call returned.                                      *)
(***************************************************************************)
pmCacheTtlMs == 300000

\* if (cacheEntry && now < cacheEntry.expiresAt - 60_000)
PmCached(lang) ==
    pm.cache[lang].data # "none" /\ now < pm.cache[lang].expiresAt - EXPIRY_GUARD_MS

\* a caller invokes fetchPmContent(lang); the pm headers are configured
FetchPmContent(c, lang) ==
    /\ pc[c] \in {"idle", "done"}
    /\ calls[c] < MaxCalls
    /\ calls' = [calls EXCEPT ![c] = @ + 1]
    /\ IF PmCached(lang)
       THEN /\ pm' = [pm EXCEPT !.lang[c] = lang, !.data[c] = pm.cache[lang].data]
            /\ pc' = [pc EXCEPT ![c] = "done"]
            /\ outcome' = [outcome EXCEPT ![c] = "resolved"]
       ELSE IF pm.promise # "none"
       THEN /\ pm' = [pm EXCEPT !.lang[c] = lang, !.data[c] = "none"]
            /\ pc' = [pc EXCEPT ![c] = "pmAwait"]
            /\ UNCHANGED outcome
       ELSE /\ pm' = [pm EXCEPT !.lang[c] = lang, !.data[c] = "none", !.promise = lang]
            /\ pc' = [pc EXCEPT ![c] = "pmAwait"]
            /\ UNCHANGED outcome
    /\ UNCHANGED <<schedVars, req, tokenVars, guestyVars, listingsCache,
                   availabilityCache, quoteCache, quoted, got>>

\* the upstream answers the content request in flight: the .then handlers
\* and the .finally handler, then the awaits of the callers continue
PmResponse(ok) ==
    /\ pm.promise # "none"
    /\ pm' = [pm EXCEPT
                 !.promise = "none",
                 !.cache = IF ok
                           THEN [@ EXCEPT ![pm.promise] =
                                    [data |-> pm.promise, expiresAt |-> now + pmCacheTtlMs]]
                           ELSE @,
                 !.data = [c \in Callers |->
                              IF pc[c] = "pmAwait" /\ ok THEN pm.promise ELSE @[c]]]
    /\ pc' = [c \in Callers |-> IF pc[c] = "pmAwait" THEN "done" ELSE pc[c]]
    /\ outcome' = [c \in Callers |->
                      IF pc[c] = "pmAwait"
                      THEN (IF ok THEN "resolved" ELSE "rejected")
                      ELSE outcome[c]]
    /\ UNCHANGED <<schedVars, calls, req, tokenVars, guestyVars, listingsCache,
                   availabilityCache, quoteCache, quoted, got>>

\* the process stays idle until the content cached last is due for a refresh
PmIdle ==
    /\ pm.promise = "none"
    /\ \E l \in Langs : pm.cache[l].expiresAt = now + pmCacheTtlMs
    /\ Pass(pmCacheTtlMs - EXPIRY_GUARD_MS)

(***************************************************************************)
(* getToken of server/index.js:492-546, an async function: the memory      *)
(* cache, the shared promise, the durable record (.guesty-token-cache.json, *)
(* tokenFile here), the credentials, then the token request.  A call waits  *)
(* in "readFile" for readTokenCache; the promise chain of its request is an *)
(* entry of promises as in guesty.cjs.  writeTokenCache is not awaited and  *)
(* swallows its error: the record is written, or not, with the answer.      *)
(* tokenFile.expires_at holds the record's expiresAt less the 60_000 ms of  *)
(* readTokenCache, the time up to which the record is returned.             *)
(***************************************************************************)
ServerPromiseIds == 1..(Cardinality(Pair) * MaxCalls + 1)

\* readTokenCache() returns the record: Date.now() < data.expiresAt - 60_000
FileValid == tokenFile # NoFile /\ ~(now >= tokenFile.expires_at)

\* a caller invokes getToken(), up to await readTokenCache()
ServerGetToken(c) ==
    /\ pc[c] \in {"idle", "done"}
    /\ calls[c] < MaxCalls
    /\ calls' = [calls EXCEPT ![c] = @ + 1]
    /\ IF CachedValid
       THEN /\ pc' = [pc EXCEPT ![c] = "done"]
            /\ outcome' = [outcome EXCEPT ![c] = "resolved"]
            /\ UNCHANGED awaiting
       ELSE IF tokenPromise # 0
       THEN /\ pc' = [pc EXCEPT ![c] = "awaiting"]
            /\ awaiting' = [awaiting EXCEPT ![c] = tokenPromise]
            /\ UNCHANGED outcome
       ELSE /\ pc' = [pc EXCEPT ![c] = "readFile"]
            /\ UNCHANGED <<outcome, awaiting>>
    /\ UNCHANGED <<schedVars, req, tokenVars, cachedToken, tokenExpiresAt, tokenPromise,
                   promises, cacheVars>>

\* readTokenCache() settles in a call of getToken()
ServerReadDone(c) ==
    /\ pc[c] = "readFile"
    /\ IF FileValid
       THEN /\ cachedToken' = tokenFile.access_token
            /\ tokenExpiresAt' = tokenFile.expires_at + EXPIRY_GUARD_MS
            /\ pc' = [pc EXCEPT ![c] = "done"]
            /\ outcome' = [outcome EXCEPT ![c] = "resolved"]
            /\ UNCHANGED <<tokenPromise, promises, awaiting, tokenPosts>>
       ELSE IF ~credentials
       THEN /\ pc' = [pc EXCEPT ![c] = "done"]
            /\ outcome' = [outcome EXCEPT ![c] = "credentials"]
            /\ UNCHANGED <<cachedToken, tokenExpiresAt, tokenPromise, promises,
                           awaiting, tokenPosts>>
       ELSE /\ Len(promises) < Cardinality(Pair) * MaxCalls + 1
            /\ promises' = Append(promises, NewPromise(0))
            /\ tokenPromise' = Len(promises) + 1
            /\ tokenPosts' = tokenPosts + 1
            /\ pc' = [pc EXCEPT ![c] = "awaiting"]
            /\ awaiting' = [awaiting EXCEPT ![c] = Len(promises) + 1]
            /\ UNCHANGED <<cachedToken, tokenExpiresAt, outcome>>
    /\ UNCHANGED <<schedVars, calls, req, openApiToken, openApiExp, tokenFile,
                   credentials, booking, cacheVars>>

\* the token endpoint answers the POST of promise k: the .then handlers, the
\* .catch handler up to await wait(1500), and on settlement .finally
ServerResponse(k, status, expires_in, wrote) ==
    /\ k \in DOMAIN promises
    /\ promises[k].st = "fetch"
    /\ IF status = 200
       THEN /\ cachedToken' = k
            /\ tokenExpiresAt' = GuestyExpiry(expires_in)
            /\ tokenFile' = IF wrote
                            THEN [access_token |-> k,
                                  expires_at |-> GuestyExpiry(expires_in)
                                                    - EXPIRY_GUARD_MS]
                            ELSE tokenFile
            /\ tokenPromise' = 0
            /\ promises' = Settle(promises, k, "resolved", k)
            /\ Continue(Settle(promises, k, "resolved", k))
            /\ UNCHANGED timers
       ELSE IF status = 429
       THEN /\ ~wrote
            /\ promises' = [promises EXCEPT ![k].st = "wait"]
            /\ timers' = Append(timers, [c |-> k, fn |-> "retry", at |-> now + 1500])
            /\ UNCHANGED <<cachedToken, tokenExpiresAt, tokenFile, tokenPromise, pc,
                           outcome, awaiting>>
       ELSE /\ ~wrote
            /\ tokenPromise' = 0
            /\ promises' = Settle(promises, k, "rejected", status)
            /\ Continue(Settle(promises, k, "rejected", status))
            /\ UNCHANGED <<cachedToken, tokenExpiresAt, tokenFile, timers>>
    /\ UNCHANGED <<activeCount, lastStart, pendingQueue, holders, startGap, line, calls,
                   req,
                   openApiToken, openApiExp, tokenPosts, credentials, booking, cacheVars>>

\* await wait(1500) ends in the catch handler of promise k: return getToken(),
\* up to await readTokenCache() ("read")
ServerRetryWake(k) ==
    /\ HasTimer(k, "retry")
    /\ NextTimer(TimerOf(k))
    /\ timers' = RemoveAt(timers, TimerOf(k))
    /\ IF CachedValid
       THEN /\ tokenPromise' = 0
            /\ promises' = Settle(promises, k, "resolved", cachedToken)
            /\ Continue(Settle(promises, k, "resolved", cachedToken))
       ELSE IF tokenPromise # 0
       THEN /\ promises' = [promises EXCEPT ![k].st = "follow",
                                             ![k].follows = tokenPromise]
            /\ UNCHANGED <<tokenPromise, pc, outcome, awaiting>>
       ELSE /\ promises' = [promises EXCEPT ![k].st = "read"]
            /\ UNCHANGED <<tokenPromise, pc, outcome, awaiting>>
    /\ UNCHANGED <<activeCount, lastStart, pendingQueue, holders, startGap, line, calls,
                   req,
                   tokenVars, cachedToken, tokenExpiresAt, cacheVars>>

\* readTokenCache() settles in the getToken() the catch handler of promise k
\* called (the credentials were there when promise k was made)
ServerRetryRead(k) ==
    /\ k \in DOMAIN promises
    /\ promises[k].st = "read"
    /\ IF FileValid
       THEN /\ cachedToken' = tokenFile.access_token
            /\ tokenExpiresAt' = tokenFile.expires_at + EXPIRY_GUARD_MS
            /\ tokenPromise' = 0
            /\ promises' = Settle(promises, k, "resolved", tokenFile.access_token)
            /\ Continue(Settle(promises, k, "resolved", tokenFile.access_token))
            /\ UNCHANGED tokenPosts
       ELSE /\ Len(promises) < Cardinality(Pair) * MaxCalls + 1
            /\ promises' = Append([promises EXCEPT ![k].st = "follow",
                                                    ![k].follows = Len(promises) + 1],
                                  NewPromise(promises[k].retry + 1))
            /\ tokenPromise' = Len(promises) + 1
            /\ tokenPosts' = tokenPosts + 1
            /\ UNCHANGED <<cachedToken, tokenExpiresAt, pc, outcome, awaiting>>
    /\ UNCHANGED <<schedVars, calls, req, openApiToken, openApiExp, tokenFile,
                   credentials, booking, cacheVars>>

(***************************************************************************)
(* normalizePmListings, index.js:703-760.  A raw record is its id (l._id || *)
(* l.id, 0 when absent) and its title ("" when absent); the other fields of *)
(* a Listing are computed from the same record.  map is the Map of the      *)
(* function: entries in order of first insertion.                           *)
(***************************************************************************)
RawIds == 0..2
RawTitles == {"", "a", "b"}
RawRecords == [id : RawIds, title : RawTitles]
RawLists == UNION {[1..n -> RawRecords] : n \in 0..MaxRaw}

\* map.set(id, l)
SetRecord(map, l) ==
    IF \E i \in 1..Len(map) : map[i].id = l.id
    THEN [i \in 1..Len(map) |-> IF map[i].id = l.id THEN l ELSE map[i]]
    ELSE Append(map, l)

\* list.forEach((l) => { if (id && l.title) map.set(id, l) }), [...map.values()]
RECURSIVE MapOfRecords(_, _)
MapOfRecords(list, map) ==
    IF list = <<>> THEN map
    ELSE MapOfRecords(Tail(list),
                      IF Head(list).id # 0 /\ Head(list).title # ""
                      THEN SetRecord(map, Head(list))
                      ELSE map)

NormalizePmListings(list) ==
    LET values == MapOfRecords(list, <<>>)
    IN  [i \in 1..Len(values) |-> [id |-> values[i].id, title |-> values[i].title]]

\* const openApiList = await fetchOpenApiListings(options) returns list
OpenApiList(c, list) ==
    /\ pc[c] = "idle"
    /\ pc' = [pc EXCEPT ![c] = "normalize"]
    /\ req' = [req EXCEPT ![c] = [NewReq EXCEPT !.kind = "listings", !.results = list]]
    /\ UNCHANGED <<schedVars, calls, outcome, tokenVars, guestyVars, cacheVars>>

\* fetchPmListings: the length test, then return normalizePmListings(openApiList)
Normalize(c) ==
    /\ pc[c] = "normalize"
    /\ pc' = [pc EXCEPT ![c] = "normalized"]
    /\ req' = [req EXCEPT ![c] =
                  IF req[c].results = <<>>
                  THEN Thrown(req[c], [NoErr EXCEPT !.msg =
                                          "Open API listings returned no results"])
                  ELSE [req[c] EXCEPT !.http = 200,
                                      !.out = NormalizePmListings(req[c].results)]]
    /\ UNCHANGED <<schedVars, calls, outcome, tokenVars, guestyVars, cacheVars>>

\* the module's variables as its top-level statements leave them
InitState ==
    /\ activeCount = 0
    /\ lastStart = Horizon         \* let lastStart = 0, long before Date.now()
    /\ pendingQueue = <<>>
    /\ timers = <<>>
    /\ holders = {}
    /\ startGap = MIN_INTERVAL_MS
    /\ line = <<>>
    /\ pc = [c \in Callers |-> "idle"]
    /\ calls = [c \in Callers |-> 0]
    /\ outcome = [c \in Callers |-> "none"]
    /\ req = [c \in Callers |-> NewReq]
    /\ openApiToken = 0
    /\ openApiExp = now               \* let openApiExp = 0, not after Date.now()
    /\ tokenPosts = 0
    /\ cachedToken = 0
    /\ tokenExpiresAt = Horizon + EXPIRY_GUARD_MS   \* let tokenExpiresAt = 0
    /\ tokenPromise = 0
    /\ promises = <<>>
    /\ awaiting = [c \in Callers |-> 0]
    /\ listingsCache = EmptyCache
    /\ availabilityCache = <<>>
    /\ quoteCache = <<>>
    /\ quoted = [st \in Stays |-> NoQuote]
    /\ got = [fn |-> "none", key |-> 0, hit |-> FALSE, turn |-> 0, high |-> 0,
              again |-> 0]
    /\ pm = [cache |-> [l \in Langs |-> NoContent], promise |-> "none",
             lang |-> [c \in Callers |-> "none"], data |-> [c \in Callers |-> "none"]]

\* a first start with the credentials configured: no durable token record yet
InitSched ==
    /\ InitState
    /\ tokenFile = NoFile
    /\ credentials = TRUE
    /\ booking = NoBooking

NextSched ==
    \/ Tick
    \/ \E c \in Callers : Schedule(c)
    \/ \E c \in Callers : StartTimer(c)
    \/ \E c \in Callers, how \in {"resolved", "rejected"} : Complete(c, how)

SpecSched == InitSched /\ [][NextSched]_vars

\* time passes, the event loop runs every due timer, and every work function
\* that was invoked completes
FairSpecSched ==
    /\ SpecSched
    /\ WF_vars(Tick)
    /\ \A c \in Callers : WF_vars(StartTimer(c))
    /\ \A c \in Callers : WF_vars(\E how \in {"resolved", "rejected"} : Complete(c, how))

Init == InitSched

\* the upstream's answers: 200, 429 with or without retry-after, another
\* non-2xx status with or without a body, or no answer at all (status 0)
Responses ==
    {[status |-> 200, retryAfter |-> 0, body |-> ""],
     [status |-> 0, retryAfter |-> 0, body |-> ""]}
    \cup [status : {429}, retryAfter : RetryAfters, body : Bodies]
    \cup [status : {500}, retryAfter : {0}, body : Bodies]

\* the inbound requests: the route, whether the query names a city and, for
\* availability, a unitTypeId
Flags == {"true", "false", "none"}
DayStatuses == {"none", "BLOCKED", "unavailable", "OPEN"}
Statuses == {"none", "AVAILABLE", "available", "BOOKED"}
\* a per-day entry carries one of the flags, or a status, or nothing
Days ==
    {d \in [isAvailable : Flags, available : Flags, status : DayStatuses] :
        /\ d.isAvailable # "none" => d.available = "none" /\ d.status = "none"
        /\ d.available # "none" => d.status = "none"}

\* the listing records an availability query can return: per-day entries, or
\* none of them and an overall status
Records ==
    {[days |-> ds, status |-> "none"] :
        ds \in UNION {[1..n -> Days] : n \in 1..MaxDays}}
    \cup {[days |-> <<>>, status |-> st] : st \in Statuses}

\* json.results of an availability query: empty, or the record the route reads
QueryResults == {<<>>} \cup {<<rec>> : rec \in Records}

Inbound ==
    [kind : {"listings"}, city : BOOLEAN, alt : {FALSE}, stay : {1}]
    \cup [kind : {"quote"}, city : {FALSE}, alt : {FALSE}, stay : {1}]
    \cup [kind : {"avail"}, city : BOOLEAN, alt : BOOLEAN, stay : {1}]

\* the event loop wakes up while the client's requests are not all answered
ClientTick ==
    /\ \/ pc[Client] \notin {"idle", "done"}
       \/ calls[Client] < MaxRequests
       \/ timers # <<>>
    /\ Tick

Next ==
    \/ ClientTick
    \/ \E x \in Inbound : Begin(Client, x.kind, x.city, x.alt, x.stay)
    \/ \E c \in Callers : ReadCacheDone(c)
    \/ \E c \in Callers, status \in TokenStatuses, e \in ExpiresIns :
          TokenResponse(c, status, e)
    \/ \E c \in Callers, ok \in BOOLEAN : WriteCacheDone(c, ok)
    \/ \E c \in Callers : StartTimer(c)
    \/ \E c \in Callers, x \in Responses :
          Response(c, x.status, x.retryAfter, x.body)
    \/ \E c \in Callers : Wake(c)
    \/ \E c \in Callers : Abort(c)
    \/ \E c \in Callers, n \in 0..1, next \in BOOLEAN : PageRead(c, n, next)
    \/ \E c \in Callers, results \in QueryResults : QueryRead(c, results)

Spec == Init /\ [][Next]_vars

\* the client's requests against an upstream that answers 200, or 429
\* without retry-after, and a token endpoint that answers 200
NextBackoff ==
    \/ ClientTick
    \/ \E x \in Inbound : Begin(Client, x.kind, x.city, x.alt, x.stay)
    \/ ReadCacheDone(Client)
    \/ \E e \in ExpiresIns : TokenResponse(Client, 200, e)
    \/ WriteCacheDone(Client, TRUE)
    \/ StartTimer(Client)
    \/ \E status \in {200, 429} : Response(Client, status, 0, "")
    \/ Wake(Client)
    \/ Abort(Client)
    \/ \E n \in 0..1, next \in BOOLEAN : PageRead(Client, n, next)
    \/ \E results \in {<<>>} \cup {<<[days |-> <<>>, status |-> st]>> : st \in Statuses} :
          QueryRead(Client, results)

SpecBackoff == Init /\ [][NextBackoff]_vars

\* fetchPmListings on every list of raw records
NextNormalize ==
    \/ \E list \in RawLists : OpenApiList(Client, list)
    \/ Normalize(Client)

SpecNormalize == Init /\ [][NextNormalize]_vars

\* getOpenApiToken() called concurrently, on its own
NextTokens ==
    \/ Tick
    \/ \E c \in Pair : Begin(c, "token", FALSE, FALSE, 1)
    \/ \E c \in Callers : ReadCacheDone(c)
    \/ \E c \in Callers, status \in TokenStatuses, e \in ExpiresIns :
          TokenResponse(c, status, e)
    \/ \E c \in Callers, ok \in BOOLEAN : WriteCacheDone(c, ok)

SpecTokens == Init /\ [][NextTokens]_vars

\* the upstream's answers to an unlimited client: 200 or a bare 500
PlainResponses == {x \in Responses : x.status \in {200, 500} /\ x.body = ""}

\* GET /api/listings called concurrently; the token endpoint and the token
\* cache file work, the upstream never rate limits and its pages hold records
NextCache ==
    \/ Tick
    \/ \E c \in Pair, city \in BOOLEAN : Begin(c, "listings", city, FALSE, 1)
    \/ \E c \in Callers : ReadCacheDone(c)
    \/ \E c \in Callers, e \in ExpiresIns : TokenResponse(c, 200, e)
    \/ \E c \in Callers : WriteCacheDone(c, TRUE)
    \/ \E c \in Callers : StartTimer(c)
    \/ \E c \in Callers, x \in PlainResponses :
          Response(c, x.status, x.retryAfter, x.body)
    \/ \E c \in Callers : Abort(c)
    \/ \E c \in Callers, next \in BOOLEAN : PageRead(c, 1, next)

SpecCache == Init /\ [][NextCache]_vars

\* GET /api/listings called again and again by one client, for one city and
\* for all; the token endpoint, the token cache file and the upstream work
NextSlot ==
    \/ Tick
    \/ \E city \in BOOLEAN : ListingsRequest(Client, city)
    \/ \E c \in Callers : ReadCacheDone(c)
    \/ \E c \in Callers, e \in ExpiresIns : TokenResponse(c, 200, e)
    \/ \E c \in Callers : WriteCacheDone(c, TRUE)
    \/ \E c \in Callers : StartTimer(c)
    \/ \E c \in Callers : Response(c, 200, 0, "")
    \/ \E c \in Callers, next \in BOOLEAN : PageRead(c, 1, next)

SpecSlot == Init /\ [][NextSlot]_vars

\* the quotes the upstream prices
QuoteIds == {1, 2}

\* the event loop wakes up for its timers, or while no availability entry is
\* left to expire (LongRest is the wait for those)
ShortRest ==
    /\ \/ timers # <<>>
       \/ \A i \in 1..Len(availabilityCache) : availabilityCache[i].expiresAt <= now
    /\ Tick

\* the client's requests, each made a second time sooner or later; the token
\* endpoint, the token cache file and the upstream work
NextExpiry ==
    \/ ShortRest
    \/ LongRest
    \/ \E x \in Inbound : Lookup(Client, x.kind, x.city, x.alt, x.stay)
    \/ \E c \in Callers : ReadCacheDone(c)
    \/ \E c \in Callers, e \in ExpiresIns : TokenResponse(c, 200, e)
    \/ \E c \in Callers : WriteCacheDone(c, TRUE)
    \/ \E c \in Callers : StartTimer(c)
    \/ \E c \in Callers : Response(c, 200, 0, "")
    \/ \E c \in Callers : PageRead(c, 1, FALSE)
    \/ \E c \in Callers, st \in {"AVAILABLE", "BOOKED"} :
          QueryRead(c, <<[days |-> <<>>, status |-> st]>>)

SpecExpiry == Init /\ [][NextExpiry]_vars

\* POST /api/reservations/quotes called again and again by one client
NextQuote ==
    \/ Tick
    \/ \E stay \in Stays : QuoteRequest(Client, stay)
    \/ \E c \in Callers : ReadCacheDone(c)
    \/ \E c \in Callers, status \in TokenStatuses, e \in ExpiresIns :
          TokenResponse(c, status, e)
    \/ \E c \in Callers, ok \in BOOLEAN : WriteCacheDone(c, ok)
    \/ \E c \in Callers : StartTimer(c)
    \/ \E c \in Callers, x \in Responses :
          Response(c, x.status, x.retryAfter, x.body)
    \/ \E c \in Callers : Wake(c)
    \/ \E c \in Callers, quote \in QuoteIds : QuoteRead(c, quote)

SpecQuote == Init /\ [][NextQuote]_vars

\* the availability cache, or the quote cache, filled by requests for many keys
NextMaps ==
    \/ Idle
    \/ \E key \in Keys : AvailabilityGet(key)
    \/ \E key \in Keys : AvailabilitySet(key)
    \/ \E key \in Keys : QuoteGet(key)
    \/ \E key \in Keys : QuoteSet(key)

SpecMaps == Init /\ [][NextMaps]_vars

\* one GET /api/listings walking a long upstream that never rate limits
NextWalk ==
    \/ Tick
    \/ \E city \in BOOLEAN : Begin(Client, "listings", city, FALSE, 1)
    \/ \E c \in Callers : ReadCacheDone(c)
    \/ \E c \in Callers, e \in ExpiresIns : TokenResponse(c, 200, e)
    \/ \E c \in Callers : WriteCacheDone(c, TRUE)
    \/ \E c \in Callers : StartTimer(c)
    \/ \E c \in Callers, x \in PlainResponses :
          Response(c, x.status, x.retryAfter, x.body)
    \/ \E c \in Callers : Abort(c)
    \/ \E c \in Callers, next \in BOOLEAN : LongPageRead(c, next)

SpecWalk == Init /\ [][NextWalk]_vars

\* a durable token record an earlier process left, past its refresh margin
\* one wake-up from now
LeftFile == [access_token |-> NumCallers * MaxCalls + 2,
             expires_at |-> now + TickMs]

\* a start of the server with or without the credentials, with or without
\* the record of an earlier process
InitServer ==
    /\ InitState
    /\ tokenFile \in {NoFile, LeftFile}
    /\ booking = NoBooking
    /\ credentials \in BOOLEAN

\* server/index.js getToken() called concurrently
NextServer ==
    \/ Tick
    \/ \E c \in Pair : ServerGetToken(c)
    \/ \E c \in Callers : ServerReadDone(c)
    \/ \E k \in ServerPromiseIds, status \in GuestyStatuses, wrote \in BOOLEAN :
          ServerResponse(k, status, 61, wrote)
    \/ \E k \in ServerPromiseIds : ServerRetryWake(k)
    \/ \E k \in ServerPromiseIds : ServerRetryRead(k)

SpecServer == InitServer /\ [][NextServer]_vars

\* the record an earlier process left in BOOKING_TOKEN_FILE
LeftBookingFile == [access_token |-> 0 - LeftFile.access_token,
                    expires_at |-> LeftFile.expires_at]

\* a start of the function with or without the records of an earlier process
InitScopes ==
    /\ InitState
    /\ credentials = TRUE
    /\ tokenFile \in {NoFile, LeftFile}
    /\ booking \in {NoBooking, [NoBooking EXCEPT !.file = LeftBookingFile]}

\* getOpenApiToken called by one caller, getBookingEngineToken by another
NextScopes ==
    \/ Tick
    \/ Begin(Client, "token", FALSE, FALSE, 1)
    \/ \E c \in Callers : ReadCacheDone(c)
    \/ \E c \in Callers, status \in TokenStatuses, e \in ExpiresIns :
          TokenResponse(c, status, e)
    \/ \E c \in Callers, ok \in BOOLEAN : WriteCacheDone(c, ok)
    \/ \E c \in Pair \ {Client} : GetBookingEngineToken(c)
    \/ \E c \in Callers : BookingReadDone(c)
    \/ \E c \in Callers, status \in TokenStatuses, e \in ExpiresIns :
          BookingTokenResponse(c, status, e)
    \/ \E c \in Callers, ok \in BOOLEAN : BookingWriteDone(c, ok)

SpecScopes == InitScopes /\ [][NextScopes]_vars

\* guesty.cjs getToken() called concurrently
NextGuesty ==
    \/ Tick
    \/ \E c \in Pair : GetToken(c)
    \/ \E k \in PromiseIds, status \in GuestyStatuses, e \in GuestyExpiresIns :
          GuestyResponse(k, status, e)
    \/ \E k \in PromiseIds : RetryWake(k)

SpecGuesty == Init /\ [][NextGuesty]_vars

\* fetchPmContent called concurrently in two languages
NextPm ==
    \/ PmIdle
    \/ \E c \in Callers, lang \in Langs : FetchPmContent(c, lang)
    \/ \E ok \in BOOLEAN : PmResponse(ok)

SpecPm == Init /\ [][NextPm]_vars

\* time passes, the token endpoint answers every POST, and the event loop
\* runs every due timer
FairSpecGuesty ==
    /\ SpecGuesty
    /\ WF_vars(Tick)
    /\ WF_vars(\E k \in PromiseIds, status \in GuestyStatuses,
                  e \in GuestyExpiresIns : GuestyResponse(k, status, e))
    /\ WF_vars(\E k \in PromiseIds : RetryWake(k))

(***************************************************************************)
(* Properties.                                                              *)
(***************************************************************************)

\* C1: in every reachable state of the limiter, for any interleaving of
\* schedule() calls, spacing-timer firings and releases, activeCount never
\* exceeds MAX_CONCURRENT.
C1_ConcurrencyCap == activeCount <= MAX_CONCURRENT

\* C2: no two calls start less than MIN_INTERVAL_MS apart: whenever start()
\* runs, at least MIN_INTERVAL_MS have passed since the previous start().
C2_Spacing == startGap >= MIN_INTERVAL_MS

\* C3: every outbound upstream request (token POST, listings page GET,
\* availability query GET, quote POST) is in flight only while the caller
\* that issued it holds a limiter slot.
C3_RequestsHoldSlot ==
    \A c \in Callers : pc[c] \in {"tokenPost", "running"} => c \in holders

\* C4: concurrent getOpenApiToken() calls that find no valid token are
\* coalesced: at most one token POST is in flight at any time.
C4_TokenCoalescing ==
    Cardinality({c \in Callers : pc[c] = "tokenPost"}) <= 1

\* the step in which getOpenApiToken() returns a token to caller c
ReturnsToken(c) ==
    /\ calls'[c] # calls[c] \/ pc[c] \in {"readCache", "writeCache"}
    /\ req'[c].token # 0

\* C5: whenever getOpenApiToken() returns a token (from memory, from the
\* durable cache or from a fresh token response), the expiry recorded for
\* the token is strictly later than the time of the return.
C5_NeverReturnsExpired ==
    [][\A c \in Callers : ReturnsToken(c) => now < openApiExp']_vars

\* C6: every getToken() call of guesty.cjs settles: a caller that awaits the
\* token eventually gets the token or an error, also when the token endpoint
\* answers 429.
C6_TokenCallSettles ==
    \A c \in Callers : (pc[c] = "awaiting") ~> (pc[c] = "done")

\* C7: a retried operation (one listings page fetch, one quote POST, one
\* availability strategy query) issues at most the first attempt plus five
\* retries, however many 429 answers it gets, and waits at most five times.
C7_RetryCeiling ==
    \A c \in Callers :
        req[c].kind \in Kinds =>
            /\ req[c].attempt <= 5
            /\ req[c].reqs <= req[c].attempt + 1
            /\ req[c].waits <= 5

\* a quote POST gave up after its sixth 429 answer
C7_Witness ==
    \E c \in Callers :
        /\ req[c].kind = "quote" /\ pc[c] = "done"
        /\ req[c].resp.status = 429 /\ req[c].reqs = 6 /\ req[c].waits = 5

\* C8: when a listings page fetch exhausts its 429 retries, the error that
\* surfaces is marked rate-limited and carries status 429, and the listings
\* route answers 429.
C8_ListingsRateLimited ==
    \A c \in Callers :
        (req[c].kind = "listings" /\ pc[c] = "done" /\ req[c].resp.status = 429) =>
            /\ req[c].err.rateLimited
            /\ req[c].err.status = 429
            /\ req[c].http = 429

\* C9: a quote whose POST was answered 429 until the retries ran out fails
\* with an error marked rateLimited with status 429, and the quotes route
\* answers 429; a quote that fails in any other way is answered 502 (a quote
\* answered from the quote cache asks the upstream nothing).
C9_QuoteRateLimited ==
    \A c \in Callers :
        (req[c].kind = "quote" /\ pc[c] = "done" /\ ~req[c].cached) =>
            IF req[c].resp.status = 429
            THEN req[c].err.rateLimited /\ req[c].err.status = 429 /\ req[c].http = 429
            ELSE IF req[c].resp.status = 200
            THEN req[c].http = 200
            ELSE req[c].http = 502

\* the quotes route answered 429 after the retries ran out
C9_Witness ==
    \E c \in Callers :
        /\ req[c].kind = "quote" /\ pc[c] = "done"
        /\ req[c].attempt = RetryLimit("quote") /\ req[c].http = 429

\* a listings page fetch or quote POST was answered non-2xx, not 429
OtherFailure(c) ==
    /\ req[c].kind \in {"listings", "quote"}
    /\ req[c].resp.status \notin {0, 200, 429}

\* no request and no backoff wait follows the answer
NotRetried(c) ==
    /\ pc[c] = "done"
    /\ req[c].http \in {500, 502}
    /\ req[c].reqs = req[c].attempt + 1
    /\ req[c].waits = req[c].attempt

\* C10 (as stated): a non-2xx answer other than 429 to a listings page fetch
\* or a quote POST is never retried, and the operation fails at once with an
\* error carrying the upstream response body.
C10_NotRetriedBody ==
    \A c \in Callers :
        OtherFailure(c) => NotRetried(c) /\ req[c].err.msg = req[c].resp.body

\* C10 (amended): a non-2xx answer other than 429 to a listings page fetch or
\* a quote POST is never retried, and the operation fails at once with an
\* error carrying the upstream response body; when that body is empty, the
\* error of a listings page fetch carries the response's status code.
C10_NotRetriedBodyOrStatus ==
    \A c \in Callers :
        OtherFailure(c) =>
            /\ NotRetried(c)
            /\ req[c].err.msg =
                   IF req[c].resp.body = "" /\ req[c].kind = "listings"
                   THEN ToString(req[c].resp.status)
                   ELSE req[c].resp.body

\* a first listings page fetch failed on an answer with an empty body
C10_Witness ==
    \E c \in Callers :
        /\ OtherFailure(c) /\ req[c].kind = "listings"
        /\ req[c].resp.body = "" /\ req[c].reqs = 1 /\ req[c].waits = 0
        /\ pc[c] = "done"

\* C11: every outbound upstream call (token POST, listings page, availability
\* query, quote POST) is in flight with an abort timer armed for it.
C11_CallsCarryTimeout ==
    \A c \in Callers :
        (pc[c] = "tokenPost" \/ (pc[c] = "running" /\ req[c].kind \in Kinds)) =>
            HasTimer(c, "abort")

\* C12: a listings page fetch or availability query that timed out is not
\* retried: the inbound request is over with no further request issued, the
\* slot is released, and the error is not a rate-limit error (no rateLimited
\* mark, no status 429, the route does not answer 429).
C12_TimeoutNotRetried ==
    \A c \in Callers :
        req[c].timedOut =>
            /\ req[c].kind \in TimedKinds
            /\ pc[c] = "done"
            /\ c \notin holders
            /\ req[c].reqs = req[c].attempt + 1
            /\ req[c].err.msg = "This operation was aborted"
            /\ ~req[c].err.rateLimited /\ req[c].err.status # 429
            /\ req[c].http \in {500, 502}

\* an availability query timed out while a fallback strategy was left untried
C12_Witness ==
    \E c \in Callers :
        /\ req[c].timedOut /\ req[c].kind = "avail"
        /\ NextStrat(req[c]) # 0
        /\ pc[c] = "done"

\* the step in which caller c calls fetchAll with the filter parameters of
\* the stored entry, not past the entry's expiresAt
HitCall(c) ==
    /\ calls'[c] # calls[c]
    /\ req'[c].kind = "listings"
    /\ listingsCache.set
    /\ listingsCache.key = req'[c].city
    /\ now <= listingsCache.expiresAt

\* C13: a fetchAll call whose filter parameters equal those of the stored
\* entry, made not past the entry's expiresAt, returns the stored results at
\* once and issues no upstream call: no page request and no token request.
C13_CacheHitNoUpstream ==
    [][\A c \in Callers :
          HitCall(c) =>
              /\ pc'[c] = "done"
              /\ req'[c].out = listingsCache.data
              /\ req'[c].sent = 0
              /\ req'[c].post = 0
              /\ tokenPosts' = tokenPosts
              /\ listingsCache' = listingsCache]_vars

\* a listings request was answered with records without any request sent
C13_Witness ==
    \E c \in Callers :
        /\ req[c].kind = "listings" /\ pc[c] = "done"
        /\ req[c].http = 200 /\ req[c].out # <<>>
        /\ req[c].sent = 0 /\ req[c].post = 0

\* caller c is in the middle of a fetchAll call that has sent a page request
Walking(c) ==
    /\ req[c].kind = "listings"
    /\ pc[c] \notin {"idle", "done"}
    /\ req[c].sent >= 1

\* C14: two fetchAll calls with identical filter parameters, the second
\* starting before the first has completed, issue at most one upstream
\* page-fetch sequence: they are never both walking the upstream's pages.
C14_OneFetchSequence ==
    \A c, d \in Callers :
        (c # d /\ req[c].city = req[d].city) => ~(Walking(c) /\ Walking(d))

\* C15: when a walk ends on a page without next cursor, after n <= 25 pages
\* with records and no 429 answer, fetchAll has issued exactly n page
\* requests, each carrying the cursor returned by the page before it (none
\* for the first), and returns the records of pages 1..n in order.
C15_PaginationWalk ==
    \A c \in Callers :
        /\ (req[c].kind = "listings" /\ pc[c] = "running") => req[c].qs = req[c].guard
        /\ (req[c].kind = "listings" /\ pc[c] = "done" /\ req[c].http = 200
               /\ req[c].cursor = 0 /\ req[c].sent >= 1) =>
              /\ req[c].guard <= MAX_PAGES
              /\ req[c].sent = req[c].guard
              /\ req[c].results = [i \in 1..req[c].guard |-> i]
              /\ req[c].out = req[c].results

\* a walk of three pages returned the records of pages 1, 2, 3 in three requests
C15_Witness ==
    \E c \in Callers :
        /\ req[c].kind = "listings" /\ pc[c] = "done" /\ req[c].http = 200
        /\ req[c].cursor = 0 /\ req[c].sent = 3 /\ req[c].out = <<1, 2, 3>>

\* a page request of c's walk fails in this step, after at least one page was read
PageFails(c) ==
    /\ req[c].kind = "listings" /\ req[c].guard >= 1
    /\ pc[c] = "running" /\ pc'[c] = "done"
    /\ req'[c].guard = req[c].guard

\* C16: when a page request fails in the middle of a walk (non-2xx answer,
\* timeout, or 429 with the retry budget spent), fetchAll fails as a whole:
\* the route answers with an error, none of the records already collected is
\* returned, and the listings cache is left as it was.
C16_FailsAsAWhole ==
    [][\A c \in Callers :
          PageFails(c) =>
              /\ req'[c].http >= 400
              /\ req'[c].out = <<>>
              /\ listingsCache' = listingsCache]_vars

\* the second page of a walk failed after the first page's record was collected
C16_Witness ==
    \E c \in Callers :
        /\ req[c].kind = "listings" /\ pc[c] = "done"
        /\ req[c].guard = 1 /\ req[c].sent >= 2 /\ req[c].results = <<1>>
        /\ req[c].http >= 400 /\ req[c].out = <<>> /\ ~listingsCache.set

\* C17: fetchAll hands out a result as complete only when the walk ended
\* because the last page carried no next cursor: a result returned to the
\* caller, and an entry stored in the listings cache, never come from a walk
\* that stopped at the 25-page guard with a cursor still in hand.
C17_CompleteOnly ==
    /\ \A c \in Callers :
          (req[c].kind = "listings" /\ pc[c] = "done" /\ req[c].http = 200) =>
              req[c].cursor = 0
    /\ listingsCache.set => listingsCache.left = 0

\* the strategies a request may query, in the order of the fallback chain:
\* 1 primary id (+city), 2 city alone, 3 alternate id (+city)
FallbackOrder(r) ==
    <<1>> \o (IF r.city THEN <<2>> ELSE <<>>) \o (IF r.alt THEN <<3>> ELSE <<>>)

\* the strategies queried, in the order of their first query
RECURSIVE StrategiesAsked(_)
StrategiesAsked(asked) ==
    IF Len(asked) <= 1 THEN asked
    ELSE LET before == StrategiesAsked(SubSeq(asked, 1, Len(asked) - 1))
         IN  IF asked[Len(asked)] = asked[Len(asked) - 1] THEN before
             ELSE Append(before, asked[Len(asked)])

\* entries of errors left by strategies that ended without a record
EndedEmpty(errors) ==
    Len(SelectSeq(errors, LAMBDA e : e.status # 429))

\* strategies given up after the last 429 retry
EndedRateLimited(errors) ==
    Len(SelectSeq(errors, LAMBDA e : e.status = 429 /\ e.attempt >= 4))

\* the upstream answers the availability query of caller c in this step
Answered(c) ==
    /\ req[c].kind = "avail" /\ pc[c] = "running"
    /\ pc'[c] # "running" \/ req'[c].asked # req[c].asked
    /\ ~req'[c].timedOut

\* C18: the availability route queries the upstream by primary id (+city),
\* then by city alone only when a city is given, then by alternate id (+city)
\* only when one is given; once a query returned a record it issues no further
\* query; and each strategy answered by 200 without results or by a non-2xx
\* status other than 429 adds exactly one entry to errors.
C18_FallbackOrder ==
    [][\A c \in Callers :
          req'[c].kind = "avail" =>
              LET r == req'[c]
                  tried == StrategiesAsked(r.asked)
              IN  /\ Len(tried) <= Len(FallbackOrder(r))
                  /\ tried = SubSeq(FallbackOrder(r), 1, Len(tried))
                  /\ (req[c].kind = "avail" /\ req[c].resolved /\ r.resolved) =>
                         r.asked = req[c].asked
                  /\ (Answered(c) /\ r.resp.status \notin {0, 200, 429}) =>
                         r.errors = Append(req[c].errors,
                                           [status |-> r.resp.status, attempt |-> -1])
                  /\ (req[c].kind = "avail" /\ pc[c] = "body" /\ pc'[c] # "body"
                        /\ ~r.resolved) =>
                         r.errors = Append(req[c].errors,
                                           [status |-> 200, attempt |-> -1])
                  /\ (pc'[c] = "done" /\ r.http \in {200, 429} /\ ~r.cached) =>
                         EndedEmpty(r.errors) + EndedRateLimited(r.errors)
                            + (IF r.resolved THEN 1 ELSE 0) = Len(tried)]_vars

\* the query by id came back empty, the query by city returned a record: one
\* errors entry, for the id query
C18_Witness ==
    \E c \in Callers :
        /\ req[c].kind = "avail" /\ pc[c] = "done" /\ req[c].resolved
        /\ req[c].city /\ req[c].asked = <<1, 2>>
        /\ req[c].errors = <<[status |-> 200, attempt |-> -1]>>

\* the last strategy of c's availability request ends in this step, without
\* a record, on an answer of the upstream
AllStrategiesFailed(c) ==
    /\ req[c].kind = "avail"
    /\ pc[c] \in {"running", "body"} /\ pc'[c] = "done"
    /\ ~req'[c].resolved /\ ~req'[c].timedOut /\ req'[c].resp.status # 0

\* C21: when every availability strategy ends without a record because the
\* upstream answered with a non-2xx status or with empty results, the route
\* does not throw: it answers with an empty availability list and the errors
\* collected, one at least for each strategy queried, and it stores nothing
\* in the availability cache for the request's key.
C21_GracefulFailure ==
    [][\A c \in Callers :
          AllStrategiesFailed(c) =>
              /\ req'[c].http \in {200, 429}
              /\ req'[c].err = NoErr
              /\ req'[c].record = NoRecord
              /\ Len(req'[c].errors) >= Len(StrategiesAsked(req'[c].asked))
              /\ availabilityCache' = availabilityCache
              /\ ~MapHas(availabilityCache', CacheKey(req'[c]))]_vars

\* three strategies were queried and none returned a record: the route
\* answered 200 with three errors entries and an empty cache
C21_Witness ==
    \E c \in Callers :
        /\ req[c].kind = "avail" /\ pc[c] = "done" /\ ~req[c].resolved
        /\ StrategiesAsked(req[c].asked) = <<1, 2, 3>>
        /\ req[c].http = 200 /\ Len(req[c].errors) = 3
        /\ ~MapHas(availabilityCache, CacheKey(req[c]))

\* C19: when no fallback strategy resolved a record, the availability result
\* carries isAvailable undefined, never false.
C19_UnresolvedIsUndefined ==
    \A c \in Callers :
        (req[c].kind = "avail" /\ pc[c] = "done" /\ req[c].http \in {200, 429}
            /\ ~req[c].resolved /\ ~req[c].cached) =>
            req[c].verdict = "undefined"

\* a day is explicitly unavailable: its isAvailable / available flag is false
\* or, when it has neither flag, its status is BLOCKED or UNAVAILABLE
ExplicitlyUnavailable(d) ==
    IF d.isAvailable # "none" \/ d.available # "none"
    THEN DayFlag(d) = "false"
    ELSE ToUpper(d.status) \in {"BLOCKED", "UNAVAILABLE"}

\* C20: for a matched record with per-day entries, isAvailable is true iff no
\* day is explicitly unavailable; for a record without per-day entries that
\* carries a status string, isAvailable is true iff the string equals
\* AVAILABLE whatever its case.
C20_Verdict ==
    \A c \in Callers :
        (req[c].kind = "avail" /\ pc[c] = "done" /\ req[c].resolved) =>
            LET days == req[c].record.days
                status == req[c].record.status
            IN  /\ Len(days) > 0 =>
                      (req[c].verdict = "true" <=>
                          \A i \in 1..Len(days) : ~ExplicitlyUnavailable(days[i]))
                /\ (Len(days) = 0 /\ status # "none") =>
                      (req[c].verdict = "true" <=> ToUpper(status) = "AVAILABLE")

\* a quote request of c arrives in this step
QuoteArrives(c) ==
    /\ calls'[c] = calls[c] + 1
    /\ req'[c].kind = "quote"

\* a quote request of c fails in this step
QuoteFails(c) ==
    /\ req[c].kind = "quote"
    /\ pc[c] # "done" /\ pc'[c] = "done"
    /\ req'[c].http # 200

\* C22: a quote request for the stay of an earlier request that succeeded,
\* arriving within the quote TTL of that success, is answered with the
\* payload stored then, marked cached, without any upstream POST and without
\* any token request; a quote request that fails stores nothing in the quote
\* cache.
C22_QuoteCaching ==
    [][\A c \in Callers :
          /\ (QuoteArrives(c) /\ quoted[req'[c].stay].ok
                /\ now - quoted[req'[c].stay].at <= QUOTE_CACHE_TTL_MS) =>
                 /\ pc'[c] = "done" /\ req'[c].http = 200
                 /\ req'[c].cached
                 /\ req'[c].out = quoted[req'[c].stay].out
                 /\ req'[c].sent = 0
                 /\ tokenPosts' = tokenPosts
                 /\ timers' = timers /\ pendingQueue' = pendingQueue
          /\ QuoteFails(c) => quoteCache' = quoteCache]_vars

\* the second request for a stay was answered from the cache, exactly one
\* quote TTL after the first one succeeded
C22_Witness ==
    \E c \in Callers :
        /\ req[c].kind = "quote" /\ pc[c] = "done" /\ req[c].cached
        /\ calls[c] = 2 /\ req[c].sent = 0
        /\ quoted[req[c].stay].ok
        /\ now - quoted[req[c].stay].at = QUOTE_CACHE_TTL_MS
        /\ req[c].out = quoted[req[c].stay].out


(***************************************************************************)
(* The size of the two Maps (SpecMaps).                                     *)
(***************************************************************************)
\* C23: after any sequence of quote requests with distinct keys the quote
\* cache holds no more entries than a fixed maximum, the oldest inserted
\* entry being evicted when the bound is reached.  setQuoteCache evicts
\* nothing: with AVAILABILITY_CACHE_MAX, the one maximum the program has, as
\* the bound, the 501st distinct key stored within the TTL violates it.
C23_QuoteCacheBounded == Len(quoteCache) <= AVAILABILITY_CACHE_MAX

\* a call of a cache function on the availability cache happens in this step
AvailabilityCall(fn) ==
    /\ got'.turn # got.turn
    /\ got'.fn = fn
    /\ quoteCache = <<>>
    /\ got'.high > 0

\* the position of the entry of map inserted earliest
Earliest(map) ==
    CHOOSE i \in 1..Len(map) : \A j \in 1..Len(map) : map[j].born >= map[i].born

\* C24: the availability cache never holds more than AVAILABILITY_CACHE_MAX
\* (500) entries; a store at capacity evicts the entry inserted earliest and
\* no other; a cache hit leaves the Map, and so the next entry to evict, as
\* it was.
C24_AvailabilityCacheBounded ==
    [][ /\ Len(availabilityCache') <= 500
        /\ AvailabilityCall("set") /\ Len(availabilityCache) >= 500
              => LET old == availabilityCache[Earliest(availabilityCache)].key
                 IN  /\ old = got'.key \/ ~MapHas(availabilityCache', old)
                     /\ MapHas(availabilityCache', got'.key)
                     /\ Len(availabilityCache') =
                            IF MapHas(availabilityCache, got'.key) /\ got'.key # old
                            THEN Len(availabilityCache) - 1
                            ELSE Len(availabilityCache)
        /\ AvailabilityCall("get") /\ got'.hit
              => availabilityCache' = availabilityCache ]_vars

\* the 501st key was stored in a full cache: key 1 is gone, key 2 is next
C24_Witness ==
    /\ got.fn = "set" /\ got.key = 501
    /\ Len(availabilityCache) = 500
    /\ availabilityCache[1].key = 2
    /\ ~MapHas(availabilityCache, 1)



(***************************************************************************)
(* Missing credentials (SpecServer).                                        *)
(***************************************************************************)
\* C25: when the client id or the client secret is missing, no getToken call
\* returns a token, whatever the memory or the durable cache holds, and no
\* token request is issued.  server/index.js getToken reads the durable
\* record before it looks at the credentials, and returns its token.
C25_CredentialsRequired ==
    ~credentials => /\ tokenPosts = 0
                    /\ \A c \in Callers : outcome[c] # "resolved"



(***************************************************************************)
(* The durable write of getOpenApiToken (SpecTokens).                       *)
(***************************************************************************)
\* C26: when the token request succeeded, the call returns a token to its
\* caller whether the durable write succeeds or fails, and the token in
\* memory is the new one.  getOpenApiToken awaits writeCache with no catch:
\* a failed write rejects the call after openApiToken was assigned.
C26_WriteFailureNotFatal ==
    [][\A c \in Callers :
          pc[c] = "writeCache" /\ pc'[c] = "done"
             => /\ req'[c].err = NoErr
                /\ req'[c].token # 0
                /\ openApiToken' # 0]_vars



(***************************************************************************)
(* The order of admission (SpecSched).                                      *)
(***************************************************************************)
\* the place of caller d in the line of unresolved schedule() calls
Place(l, d) == CHOOSE i \in 1..Len(l) : l[i] = d

\* schedule() of caller d resolves in this step
Starts(d) == pc[d] # "running" /\ pc'[d] = "running"

\* C27: admission is FIFO: a caller starts only when every caller that
\* invoked schedule() before it has started, and the pending queue keeps
\* the order of the calls.  A caller that arrives while the head waiter
\* holds a spacing timer gets a timer of its own and starts ahead of the
\* callers still in pendingQueue.
C27_Fifo ==
    [][/\ \A d \in Callers :
             Starts(d) => IF \E i \in 1..Len(line) : line[i] = d
                          THEN line[1] = d
                          ELSE line = <<>>
       /\ \A i, j \in 1..Len(pendingQueue') :
             i < j => Place(line', pendingQueue'[i]) < Place(line', pendingQueue'[j])]_vars



\* C28: when a scheduled work function completes, resolved or rejected,
\* activeCount is decremented once for that call and the head of a non-empty
\* pending queue is dequeued and given an admission attempt: it starts, or
\* gets its spacing timer, or is queued again because the limiter is still
\* full.  Nothing else changes the queue or the timers.
C28_Release ==
    [][\A c \in Callers :
          pc[c] = "running" /\ pc'[c] = "idle"
             => LET started == {d \in Callers : Starts(d)}
                IN  /\ c \notin holders'
                    /\ activeCount' = Max(0, activeCount - 1) + Cardinality(started)
                    /\ IF pendingQueue = <<>>
                       THEN started = {} /\ pendingQueue' = <<>> /\ timers' = timers
                       ELSE \/ /\ started = {Head(pendingQueue)}
                               /\ pendingQueue' = Tail(pendingQueue)
                               /\ timers' = timers
                            \/ /\ started = {}
                               /\ pendingQueue' = Tail(pendingQueue)
                               /\ Len(timers') = Len(timers) + 1
                               /\ timers'[Len(timers')].c = Head(pendingQueue)
                               /\ timers'[Len(timers')].fn = "start"
                            \/ /\ started = {}
                               /\ activeCount' >= MAX_CONCURRENT
                               /\ pendingQueue' =
                                     Append(Tail(pendingQueue), Head(pendingQueue))
                               /\ timers' = timers]_vars

\* a work function rejected and the waiter behind it was given its timer
C28_Witness ==
    \E c, d \in Callers :
       /\ outcome[c] = "rejected" /\ pc[c] = "idle"
       /\ pc[d] = "waiting" /\ HasTimer(d, "start")
       /\ activeCount = 0 /\ pendingQueue = <<>>



(***************************************************************************)
(* The waits of the retry loops.  backoff is the wait before the request    *)
(* that is under way.                                                        *)
(***************************************************************************)
\* the wait of caller c's wake timer, armed in this step
WaitArmed(c) ==
    LET i == CHOOSE i \in 1..Len(timers') : timers'[i].c = c /\ timers'[i].fn = "wake"
    IN  timers'[i].at - now

\* a 429 answer is retried by caller c in this step
Retries(c) == pc[c] = "running" /\ pc'[c] = "backoff"

\* C29: a 429 with a retry-after above 0 is followed by a wait of exactly
\* that many seconds, with no jitter and no cap; without it the wait is the
\* exponential backoff of the operation plus its jitter.
C29_RetryAfterPreferred ==
    [][\A c \in Callers :
          Retries(c)
             => LET r == req'[c]
                    a == req[c].attempt
                    floor == CASE r.kind = "listings" -> Min(5000, 700 * 2^a)
                               [] r.kind = "quote" -> Min(8000, 800 * 2^a)
                               [] r.kind = "avail" -> Min(4000, 600 * 2^a)
                    jitter == IF r.kind = "quote" THEN 300 ELSE 200
                IN  IF r.resp.retryAfter > 0
                    THEN WaitArmed(c) = r.resp.retryAfter * 1000
                    ELSE WaitArmed(c) >= floor /\ WaitArmed(c) < floor + jitter]_vars

\* a fourth 429 came with retry-after 1: the wait is 1000 ms, not 5000 and more
C29_Witness ==
    \E c \in Callers :
       /\ pc[c] = "backoff" /\ req[c].resp.retryAfter = 1 /\ req[c].attempt = 3
       /\ HasTimer(c, "wake") /\ timers[TimerOf(c)].at = now + 1000

\* C30: with an upstream that answers 429 without retry-after (SpecBackoff),
\* each wait is at least the wait before it, whatever the jitter, and the
\* 200 that follows k such answers is the answer to request k + 1.
C30_BackoffGrowth ==
    [][\A c \in Callers :
          /\ Retries(c) /\ req[c].waits > 0
                => req'[c].backoff >= req[c].backoff
          /\ pc[c] = "running" /\ pc'[c] = "body"
                => req[c].reqs = req[c].waits + 1 /\ req'[c].reqs = req[c].reqs]_vars

\* a quote POST answered 200 at its sixth request, after five computed waits
C30_Witness ==
    \E c \in Callers :
       /\ req[c].kind = "quote" /\ pc[c] = "body" /\ req[c].resp.status = 200
       /\ req[c].reqs = 6 /\ req[c].waits = 5

(***************************************************************************)
(* The page loop of fetchOpenApiListings (Spec, SpecWalk).                  *)
(***************************************************************************)
\* the body of a listings page is read by caller c in this step
ReadsPage(c) ==
    /\ req[c].kind = "listings" /\ pc[c] = "body"
    /\ req'[c].guard = req[c].guard + 1

\* C31: a page with zero results ends the walk: no further page request is
\* issued, even if the page carries a next cursor.  The loop tests only
\* cursor && guard < 25: an empty page with a cursor is followed by the
\* request of the next page.
C31_StopsOnEmptyPage ==
    [][\A c \in Callers :
          ReadsPage(c) /\ req'[c].results = req[c].results
             => pc'[c] = "done"]_vars

\* C32: against an upstream that returns a next cursor on every page, the
\* walk requests at most 25 pages and ends when its 25th page was read.
C32_PageCountGuard ==
    \A c \in Callers :
        req[c].kind = "listings" =>
            /\ req[c].guard <= 25
            /\ req[c].sent <= 25
            /\ req[c].guard = 25 => pc[c] = "done"

\* the 25th page still carried a cursor: the walk ended with 25 pages' records
C32_Witness ==
    \E c \in Callers :
        /\ req[c].kind = "listings" /\ pc[c] = "done" /\ req[c].http = 200
        /\ req[c].cursor # 0 /\ req[c].guard = 25 /\ req[c].sent = 25
        /\ Len(req[c].out) = 25

(***************************************************************************)
(* normalizePmListings (SpecNormalize).                                     *)
(***************************************************************************)
\* the positions of list that hold a record of the id
Holding(list, id) == {i \in 1..Len(list) : list[i].id = id}

\* C33: when several raw records carry the same id (each with a title), the
\* output holds exactly one Listing for that id, and it has the fields of
\* the first of them in input order.  map.set(id, l) replaces the record the
\* Map holds: the Listing has the fields of the last record with the id.
C33_FirstOccurrenceWins ==
    \A c \in Callers :
        pc[c] = "normalized" =>
            \A id \in RawIds \ {0} :
                LET raw == req[c].results
                    at == Holding(raw, id)
                    first == CHOOSE i \in at : \A j \in at : i <= j
                IN  (Cardinality(at) >= 2 /\ \A i \in at : raw[i].title # "")
                       => /\ Cardinality(Holding(req[c].out, id)) = 1
                          /\ \A j \in Holding(req[c].out, id) :
                                req[c].out[j].title = raw[first].title


\* C34: the listings cache has one slot.  A fetchAll for a key whose results
\* were stored within the TTL, and then replaced by a fetchAll for another
\* key, is not answered from the cache: it is answered only after page
\* requests of its own.
C34_SingleSlot ==
    \A c \in Callers :
        (req[c].kind = "listings" /\ req[c].evicted) =>
            /\ (pc[c] = "done" /\ req[c].http = 200) => req[c].sent >= 1
            /\ req[c].sent = 0 => req[c].out = <<>>

\* the third request, for the key of the first, was answered after page
\* requests of its own, the second's results being in the slot until then
C34_Witness ==
    /\ pc[Client] = "done" /\ req[Client].kind = "listings" /\ req[Client].evicted
    /\ calls[Client] = 3
    /\ req[Client].http = 200 /\ req[Client].sent >= 1
    /\ listingsCache.key = req[Client].city
    /\ listingsCache.was.set /\ listingsCache.was.key # req[Client].city


\* the step in which caller c's request of kind k arrives and looks its key up
LooksUp(c, k) ==
    /\ calls'[c] = calls[c] + 1
    /\ req'[c].kind = k

\* C35: a lookup in the listings, availability or quote cache made after
\* the entry's expiresAt is a miss and removes the entry in the same step; a
\* lookup made at or before expiresAt returns the stored value and leaves
\* the entry alone.
C35_LazyExpiry ==
    [][\A c \in Callers :
          /\ (LooksUp(c, "listings") /\ listingsCache.set
                /\ listingsCache.key = req'[c].city) =>
                 IF now > listingsCache.expiresAt
                 THEN /\ pc'[c] # "done" /\ req'[c].out = <<>>
                      /\ ~listingsCache'.set
                 ELSE /\ pc'[c] = "done" /\ req'[c].out = listingsCache.data
                      /\ listingsCache' = listingsCache
          /\ (LooksUp(c, "avail") /\ MapHas(availabilityCache, CacheKey(req'[c]))) =>
                 IF now > MapGet(availabilityCache, CacheKey(req'[c])).expiresAt
                 THEN /\ pc'[c] # "done" /\ ~req'[c].cached
                      /\ ~MapHas(availabilityCache', CacheKey(req'[c]))
                 ELSE /\ pc'[c] = "done" /\ req'[c].cached
                      /\ Payload(req'[c]) =
                             MapGet(availabilityCache, CacheKey(req'[c])).value
                      /\ availabilityCache' = availabilityCache
          /\ (LooksUp(c, "quote") /\ MapHas(quoteCache, CacheKey(req'[c]))) =>
                 IF now > MapGet(quoteCache, CacheKey(req'[c])).expiresAt
                 THEN /\ pc'[c] # "done" /\ ~req'[c].cached
                      /\ ~MapHas(quoteCache', CacheKey(req'[c]))
                 ELSE /\ pc'[c] = "done" /\ req'[c].cached
                      /\ Payload(req'[c]) = MapGet(quoteCache, CacheKey(req'[c])).value
                      /\ quoteCache' = quoteCache]_vars

\* an availability request found its key's entry expired: it is being
\* answered by the upstream and the entry is gone
C35_Witness ==
    /\ req[Client].kind = "avail" /\ req[Client].stale
    /\ pc[Client] \notin {"idle", "done"}
    /\ ~req[Client].cached
    /\ ~MapHas(availabilityCache, CacheKey(req[Client]))


(***************************************************************************)
(* The two token scopes (SpecScopes).                                       *)
(***************************************************************************)
\* C36: when a getter finds no valid token in memory and the durable record
\* of its scope holds a token that is still valid, it returns that token,
\* adopts the token and its expiry into memory and issues no token request;
\* it leaves the other scope's token in memory and durable record alone.
C36_DurableFallback ==
    [][\A c \in Callers :
          /\ (pc[c] = "readCache" /\ pc'[c] # "readCache"
                /\ tokenFile # NoFile /\ now < tokenFile.expires_at) =>
                 /\ pc'[c] = "done" /\ req'[c].token = tokenFile.access_token
                 /\ openApiToken' = tokenFile.access_token
                 /\ openApiExp' = tokenFile.expires_at
                 /\ tokenPosts' = tokenPosts /\ req'[c].post = 0
                 /\ tokenFile' = tokenFile
                 /\ booking' = booking
          /\ (pc[c] = "bookingRead" /\ pc'[c] # "bookingRead"
                /\ booking.file # NoFile /\ now < booking.file.expires_at) =>
                 /\ pc'[c] = "done" /\ req'[c].token = booking.file.access_token
                 /\ booking'.token = booking.file.access_token
                 /\ booking'.exp = booking.file.expires_at
                 /\ booking'.posts = booking.posts /\ req'[c].post = 0
                 /\ booking'.file = booking.file
                 /\ <<openApiToken, openApiExp, tokenFile, tokenPosts>>' =
                        <<openApiToken, openApiExp, tokenFile, tokenPosts>>]_vars

\* getBookingEngineToken has adopted and returned the token an earlier process
\* left, without a token request, while the open-api scope has its own token
C36_Witness ==
    \E c \in Callers :
        /\ pc[c] = "done" /\ req[c].kind = "booking"
        /\ req[c].token = LeftBookingFile.access_token
        /\ booking.token = LeftBookingFile.access_token
        /\ booking.posts = 0
        /\ openApiToken > 0 /\ tokenFile.access_token = openApiToken


(***************************************************************************)
(* A refused token request of guesty.cjs (SpecGuesty).                      *)
(***************************************************************************)
\* the token endpoint answers the POST of promise k with a status that is
\* neither a success nor 429
Refused(k) ==
    /\ k \in DOMAIN promises
    /\ promises[k].st = "fetch"
    /\ promises'[k].st = "rejected"
    /\ promises'[k].val \notin {200, 429}

\* C37: when the token endpoint answers a non-success status other than 429,
\* the getToken calls waiting for the answer reject, tokenPromise is cleared
\* and cachedToken and tokenExpiresAt stay as they were; the next getToken
\* call, finding no tokenPromise and no valid token, sends a token request.
C37_FailedRefreshNotCached ==
    [][/\ \A k \in PromiseIds :
             Refused(k) =>
                 /\ tokenPromise' = 0
                 /\ cachedToken' = cachedToken
                 /\ tokenExpiresAt' = tokenExpiresAt
                 /\ \A c \in Callers :
                        awaiting[c] = k =>
                            /\ pc'[c] = "done" /\ outcome'[c] = "rejected"
                            /\ awaiting'[c] = 0
       /\ \A c \in Callers :
             (calls'[c] = calls[c] + 1 /\ tokenPromise = 0 /\ ~CachedValid) =>
                 /\ Len(promises') = Len(promises) + 1
                 /\ promises'[Len(promises')] = NewPromise(0)
                 /\ tokenPromise' = Len(promises')
                 /\ awaiting'[c] = Len(promises')]_vars

\* a token request was refused with 500, and the getToken call made after it
\* has a token request of its own in flight, no token being cached
C37_Witness ==
    \E k, j \in PromiseIds :
        /\ k < j /\ j \in DOMAIN promises
        /\ promises[k].st = "rejected" /\ promises[k].val = 500
        /\ promises[k].retry = 0
        /\ promises[j].st = "fetch" /\ tokenPromise = j
        /\ cachedToken = 0
        /\ \E c \in Callers : awaiting[c] = j /\ calls[c] = 2


(***************************************************************************)
(* Progress of the limiter (FairSpecSched).                                 *)
(***************************************************************************)
\* setTimeout(start, waitMs) is pending for some caller
StartPending == \E i \in 1..Len(timers) : timers[i].fn = "start"

C39_ContentInLanguage ==
    /\ \A c \in Callers :
          (pc[c] = "done" /\ outcome[c] = "resolved" /\ pm.lang[c] # "none") =>
              pm.data[c] = pm.lang[c]
    /\ \A l \in Langs : pm.cache[l].data \in {"none", l}


(***************************************************************************)
(* The listing an availability verdict is about (Spec).                     *)
(***************************************************************************)
\* C40: whenever the availability route answers with a verdict derived from
\* an upstream record, the record's _id is the requested :id, or the
\* requested unitTypeId.  The route takes results[0] of the city= query
\* without looking at its _id.
C40_VerdictOfRequestedListing ==
    \A c \in Callers :
        (req[c].kind = "avail" /\ pc[c] = "done" /\ req[c].resolved /\ ~req[c].cached) =>
            \/ req[c].from = PrimaryId
            \/ req[c].alt /\ req[c].from = AlternateId

====
